---- MODULE Spec2Model ----
(***************************************************************************)
(* d-vecDB: the single-node storage-and-indexing engine.                   *)
(*                                                                         *)
(* The model covers the VectorStore facade (vectorstore/src/lib.rs), the   *)
(* StorageEngine and CollectionStorage (storage/src/lib.rs), the           *)
(* RecoveryManager (storage/src/recovery.rs), the buffered write-ahead log *)
(* (storage/src/wal.rs) and the HnswRsIndex adapter                        *)
(* (index/src/hnsw_rs_index.rs), together with the part of the file system *)
(* they act on: the data directory, the .deleted area and the WAL file.    *)
(***************************************************************************)
EXTENDS Integers, Sequences, FiniteSets, TLC

VARIABLES
    now,          \* wall clock, in seconds
    active,       \* <data>/: directory name -> [meta, vec] (metadata.json, vectors.bin)
    deleted,      \* <data>/.deleted/: directory name -> [meta, vec]
    wal_file,     \* <data>/wal: the operations written to the file, in order
    wal_buf,      \* WriteAheadLog.buffer: appended, not yet written
    engine,       \* "up": a VectorStore is open; "failed": VectorStore::new returned Err
    collections,  \* StorageEngine.collections: name -> [config, loc]
    indexes,      \* VectorStore.indexes: name -> HnswRsIndex
    last,         \* the last facade call and what it returned
    restarts,     \* how often the process was killed and the store reopened
    acked,        \* history: [coll, id] of inserts that returned Ok, not deleted since
    durable,      \* history: the acked inserts that a later sync() covered
    tomb,         \* history: [coll, id, synced] deleted with delete(), not inserted since
    purged,       \* history: [name, synced] hard-deleted, not created since
    held,         \* history: .deleted directory -> [name, ids]: the collection that was
                  \* soft-deleted into it and the ids its queries returned just before
    wal_words,    \* the WAL file as read_all reads it: a sequence of 4-byte words
    valid_prefix, \* history: [ops, kind], the operations of the frames written whole
                  \* and what came after them ("clean", "corrupt", "truncated")
    read_ops,     \* [done, ops]: what the last read_all returned
    snapshots,    \* <data>/snapshots/: directory name -> [meta, files]; meta is the
                  \* parsed snapshot.json, files the copied files by file name
    mtime,        \* modification time of each collection directory, by location
    wal_bytes,    \* the WAL file as the bytes read_all reads
    framed,       \* history: the operations handed to append, in call order
    hits,         \* the last query: its request, the index candidates, the results
    cursor,       \* a scroll loop: the limit, the offset to send next, the points seen
    graph,        \* an HnswIndex: [nodes, entry_point], nodes by id
    tasks         \* concurrent calls: task -> [pc, config, res]; for a call on the
                  \* WAL, [op, arg, chunk, need]; for an insert, [op, todo, vecs];
                  \* for a call on the storage engine also [lock, storage]

readVars == <<wal_words, valid_prefix, read_ops>>

moreVars == <<snapshots, wal_bytes, framed, hits, cursor, graph>>

vars == <<now, active, deleted, wal_file, wal_buf, engine, collections, indexes,
          last, restarts, acked, durable, tomb, purged, held, tasks, readVars, moreVars, mtime>>

(***************************************************************************)
(* Bounds of the model.                                                    *)
(***************************************************************************)
MaxWal == 4        \* operations logged in one run of the model
MaxRestarts == 1   \* kills followed by a reopen
MaxTime == 1       \* clock ticks

(***************************************************************************)
(* Values.  A name is the sequence of its '_'-separated segments, so that  *)
(* format!("{}_{}", name, timestamp) and split('_').next() are computed as *)
(* the code computes them: "a" is <<"a">>, "a_b" is <<"a", "b">>.          *)
(***************************************************************************)
NameA == <<"a">>
NameAB == <<"a", "b">>
NoName == <<>>

Dims == {1, 2}

Config(n, d) == [name |-> n, dimension |-> d]

\* a vector without metadata; an Option is <<>> for None and <<x>> for Some(x)
Vec(i, len) == [id |-> i, data |-> [k \in 1..len |-> 0], metadata |-> <<>>]

\* Local::now().format("%Y%m%d_%H%M%S"): two segments, date and time of day
Timestamp(t) == <<"ymd", <<"t0", "t1", "t2", "t3">>[t + 1]>>

\* format!("{}_{}", collection_name, timestamp)
DeletedDirName(n, t) == n \o Timestamp(t)

\* file_name().to_str().split('_').next()
NameFromPath(d) == <<Head(d)>>

(***************************************************************************)
(* Finite maps (HashMap, DashMap, a directory) as functions on their keys. *)
(***************************************************************************)
Put(m, k, v) == [x \in DOMAIN m \cup {k} |-> IF x = k THEN v ELSE m[x]]
Drop(m, k) == [x \in DOMAIN m \ {k} |-> m[x]]
EmptyMap == [x \in {} |-> 0]

RECURSIVE SeqToSet(_)
SeqToSet(s) == IF s = <<>> THEN {} ELSE {Head(s)} \cup SeqToSet(Tail(s))

(***************************************************************************)
(* WAL operations (WALOperation).                                          *)
(***************************************************************************)
OpCreate(cfg) == [type |-> "CreateCollection", config |-> cfg]
OpDeleteCollection(n) == [type |-> "DeleteCollection", name |-> n]
OpInsert(n, v) == [type |-> "InsertVector", collection |-> n, vector |-> v]
OpBatch(n, vs) == [type |-> "BatchInsert", collection |-> n, vectors |-> vs]
OpDeleteVector(n, i) == [type |-> "DeleteVector", collection |-> n, id |-> i]

\* WriteAheadLog::append: the entry goes to the buffer.  An entry of the model
\* is a few bytes, so the 256 KiB threshold is not reached within MaxWal entries
\* and only sync() and read_all() write the buffer out.
WalAppend(buf, op) == Append(buf, op)

WalLen == Len(wal_file) + Len(wal_buf)

(***************************************************************************)
(* CollectionStorage.  A storage handle keeps its files open: loc names    *)
(* the directory that holds them now, which a rename changes.              *)
(***************************************************************************)
ActiveLoc(d) == [area |-> "active", dir |-> d]
DeletedLoc(d) == [area |-> "deleted", dir |-> d]

Handle(cfg, loc) == [config |-> cfg, loc |-> loc]

\* CollectionStorage::new(dir, config): create_dir_all, open vectors.bin
\* (created if absent, kept if present), write metadata.json
StorageNew(act, cfg) ==
    IF cfg.name \in DOMAIN act
    THEN [act EXCEPT ![cfg.name].meta = cfg]
    ELSE Put(act, cfg.name, [meta |-> cfg, vec |-> <<>>])

\* the records of vectors.bin a handle reads (iter_vectors)
FileOf(act, del, h) ==
    IF h.loc.area = "active"
    THEN IF h.loc.dir \in DOMAIN act THEN act[h.loc.dir].vec ELSE <<>>
    ELSE IF h.loc.dir \in DOMAIN del THEN del[h.loc.dir].vec ELSE <<>>

\* data_file.append through a handle, on the active area
AppendActive(act, h, recs) ==
    IF h.loc.area = "active" /\ h.loc.dir \in DOMAIN act
    THEN [act EXCEPT ![h.loc.dir].vec = @ \o recs]
    ELSE act

\* data_file.append through a handle, on the .deleted area
AppendDeleted(del, h, recs) ==
    IF h.loc.area = "deleted" /\ h.loc.dir \in DOMAIN del
    THEN [del EXCEPT ![h.loc.dir].vec = @ \o recs]
    ELSE del

\* CollectionStorage::insert / batch_insert: every vector has the handle's dimension
StorageAccepts(h, vs) == \A k \in 1..Len(vs) : Len(vs[k].data) = h.config.dimension

\* the modification times of the collection directories after a step that
\* left the directories act and del: a directory that create_dir_all or
\* copy_dir_recursive made at time t carries t, a directory that was there
\* keeps its time (appending to a file inside it does not change it)
DirTimes(mt, act, del, t) ==
    [l \in {ActiveLoc(d) : d \in DOMAIN act} \cup {DeletedLoc(d) : d \in DOMAIN del} |->
        IF l \in DOMAIN mt THEN mt[l] ELSE t]

\* fs::rename of a directory whose modification time was old, at time t: the
\* file system either leaves the time of the moved directory alone or sets it
RenamedDirTimes(old, t) == {old, t}

(***************************************************************************)
(* HnswRsIndex: the id maps, the metadata map, the counter and the points   *)
(* given to hnsw_rs.                                                       *)
(***************************************************************************)
NewIndex(dim) ==
    [dimension |-> dim, next_idx |-> 0, id_to_idx |-> EmptyMap,
     idx_to_id |-> EmptyMap, metadata |-> EmptyMap, points |-> {}]

\* HnswRsIndex::insert, the dimension already checked; the metadata map is
\* written only `if let Some(meta) = metadata`
IndexInsert(ix, v) ==
    [ix EXCEPT !.next_idx = @ + 1,
               !.id_to_idx = Put(@, v.id, ix.next_idx),
               !.idx_to_id = Put(@, ix.next_idx, v.id),
               !.metadata = IF v.metadata # <<>> THEN Put(@, v.id, v.metadata[1]) ELSE @,
               !.points = @ \cup {[idx |-> ix.next_idx, data |-> v.data]}]

IndexAccepts(ix, v) == Len(v.data) = ix.dimension

RECURSIVE IndexInsertAll(_, _)
IndexInsertAll(ix, vs) ==
    IF vs = <<>> THEN ix ELSE IndexInsertAll(IndexInsert(ix, Head(vs)), Tail(vs))

\* the length of the prefix of vs that precedes its first vector of a wrong dimension
RECURSIVE GoodPrefix(_, _)
GoodPrefix(ix, vs) ==
    IF vs = <<>> \/ ~IndexAccepts(ix, Head(vs)) THEN 0 ELSE 1 + GoodPrefix(ix, Tail(vs))

\* HnswRsIndex::batch_insert: a vector of a wrong dimension returns Err before
\* any mapping is stored; the indices drawn for the vectors before it are spent
IndexBatchInsert(ix, vs) ==
    IF GoodPrefix(ix, vs) = Len(vs)
    THEN IndexInsertAll(ix, vs)
    ELSE [ix EXCEPT !.next_idx = @ + GoodPrefix(ix, vs)]

\* HnswRsIndex::delete: only the maps change, hnsw_rs keeps the point
IndexDelete(ix, i) ==
    IF i \in DOMAIN ix.id_to_idx
    THEN [ix EXCEPT !.id_to_idx = Drop(@, i),
                    !.idx_to_id = Drop(@, ix.id_to_idx[i]),
                    !.metadata = Drop(@, i)]
    ELSE ix

\* HnswRsIndex::search with limit and ef large enough to reach every point:
\* the points whose internal index still maps to an id
SearchIds(ix) == {ix.idx_to_id[p.idx] : p \in {q \in ix.points : q.idx \in DOMAIN ix.idx_to_id}}

\* HnswRsIndex::stats().vector_count: the size of the id map
VectorCountOfPoints(ix) == Cardinality(ix.points)
VectorCount(ix) == Cardinality(DOMAIN ix.id_to_idx)


(***************************************************************************)
(* Read-only facade operations, as functions of the state.                 *)
(***************************************************************************)
\* VectorStore::list_collections -> StorageEngine::list_collections
ListCollections == DOMAIN collections

\* VectorStore::list_deleted_collections: the directories under .deleted
ListDeletedCollections == DOMAIN deleted

\* the entries of list_deleted_collections() that were made for collection n
DeletedEntriesFor(n) == {d \in DOMAIN deleted : d \in DOMAIN held /\ held[d].name = n}

\* VectorStore::query succeeds: the collection has a config and an index
QueryOk(n) == n \in DOMAIN collections /\ n \in DOMAIN indexes

\* the ids VectorStore::query can return for collection n
QueryIds(n) == IF QueryOk(n) THEN SearchIds(indexes[n]) ELSE {}

\* StorageEngine::get_all_vectors
GetAllVectors(n) == FileOf(active, deleted, collections[n])

\* the ids VectorStore::scroll walks through (it reads the vectors file)
ScrollIds(n) ==
    IF n \in DOMAIN collections THEN {v.id : v \in SeqToSet(GetAllVectors(n))} ELSE {}

\* VectorStore::count without a filter: get_collection_stats().vector_count
Count(n) ==
    IF n \in DOMAIN collections /\ n \in DOMAIN indexes THEN VectorCount(indexes[n]) ELSE 0

(***************************************************************************)
(* The record of the last call.                                            *)
(***************************************************************************)
Called(op, n, vs, i, res, ret) ==
    [op |-> op, coll |-> n, vecs |-> vs, id |-> i, res |-> res, ret |-> ret]

Pairs(n, vs) == {[coll |-> n, id |-> vs[k].id] : k \in 1..Len(vs)}
OfColl(S, n) == {p \in S : p.coll = n}

\* history sets: what a call takes out, what sync() covers, what a kill leaves
Untomb(S, P) == {p \in S : [coll |-> p.coll, id |-> p.id] \notin P}
Unpurge(S, n) == {p \in S : p.name # n}
Synced(S) == {[p EXCEPT !.synced = TRUE] : p \in S}
Surviving(S) == {p \in S : p.synced}

Tasks == {1, 2}
IdleTask ==
    [pc |-> "idle", config |-> Config(NoName, 0), res |-> "none",
     op |-> "none", arg |-> 0, chunk |-> <<>>, need |-> {},
     todo |-> <<>>, vecs |-> <<>>, lock |-> "none", storage |-> <<>>]

\* no query was made yet
NoHits ==
    [res |-> "none", coll |-> NoName, query |-> <<>>, limit |-> 0, filter |-> <<>>,
     candidates |-> <<>>, results |-> <<>>]

\* HnswIndex::new: no node, no entry point
NoGraph == [nodes |-> EmptyMap, entry_point |-> <<>>]

\* no scroll loop was begun yet
NoCursor ==
    [state |-> "idle", coll |-> NoName, limit |-> 0, filter |-> <<>>, offset |-> <<>>,
     seen |-> <<>>]

Init ==
    /\ now = 0
    /\ active = EmptyMap
    /\ deleted = EmptyMap
    /\ wal_file = <<>>
    /\ wal_buf = <<>>
    /\ engine = "up"
    /\ collections = EmptyMap
    /\ indexes = EmptyMap
    /\ last = Called("new", NoName, <<>>, 0, "Ok", NoName)
    /\ restarts = 0
    /\ acked = {}
    /\ durable = {}
    /\ tomb = {}
    /\ purged = {}
    /\ held = EmptyMap
    /\ tasks = [t \in Tasks |-> IdleTask]
    /\ wal_words = <<>>
    /\ valid_prefix = [ops |-> <<>>, kind |-> "clean"]
    /\ read_ops = [done |-> FALSE, ops |-> <<>>]
    /\ snapshots = EmptyMap
    /\ mtime = EmptyMap
    /\ wal_bytes = <<>>
    /\ framed = <<>>
    /\ hits = NoHits
    /\ cursor = NoCursor
    /\ graph = NoGraph

(***************************************************************************)
(* Facade operations, each taken as one step (no other call interleaves).  *)
(***************************************************************************)
\* the clock advances by one second
Tick ==
    /\ now < MaxTime
    /\ now' = now + 1
    /\ UNCHANGED <<active, deleted, wal_file, wal_buf, engine, collections, indexes,
                   last, restarts, acked, durable, tomb, purged, held, tasks, readVars, moreVars, mtime>>

\* VectorStore::create_collection -> StorageEngine::create_collection
CreateCollection(cfg) ==
    /\ engine = "up"
    /\ \/ /\ cfg.name \in DOMAIN collections
          /\ last' = Called("create_collection", cfg.name, <<>>, 0,
                            "CollectionAlreadyExists", NoName)
          /\ UNCHANGED <<active, wal_buf, collections, indexes, purged>>
       \/ /\ cfg.name \notin DOMAIN collections
          /\ active' = StorageNew(active, cfg)
          /\ wal_buf' = WalAppend(wal_buf, OpCreate(cfg))
          /\ collections' = Put(collections, cfg.name, Handle(cfg, ActiveLoc(cfg.name)))
          /\ indexes' = Put(indexes, cfg.name, NewIndex(cfg.dimension))
          /\ purged' = Unpurge(purged, cfg.name)
          /\ last' = Called("create_collection", cfg.name, <<>>, 0, "Ok", NoName)
    /\ UNCHANGED <<now, deleted, wal_file, engine, restarts, acked, durable, tomb, held, tasks, readVars, moreVars>>
    /\ mtime' = DirTimes(mtime, active', deleted', now)

\* VectorStore::hard_delete_collection -> StorageEngine::delete_collection
HardDeleteCollection(n) ==
    /\ engine = "up"
    /\ \/ /\ n \notin DOMAIN collections
          /\ last' = Called("hard_delete_collection", n, <<>>, 0, "CollectionNotFound", NoName)
          /\ UNCHANGED <<active, wal_buf, collections, indexes, acked, durable, tomb, purged>>
       \/ /\ n \in DOMAIN collections
          /\ wal_buf' = WalAppend(wal_buf, OpDeleteCollection(n))
          /\ collections' = Drop(collections, n)
          /\ active' = Drop(active, n)
          /\ indexes' = Drop(indexes, n)
          /\ acked' = acked \ OfColl(acked, n)
          /\ durable' = durable \ OfColl(durable, n)
          /\ tomb' = tomb \ OfColl(tomb, n)
          /\ purged' = Unpurge(purged, n) \cup {[name |-> n, synced |-> FALSE]}
          /\ last' = Called("hard_delete_collection", n, <<>>, 0, "Ok", NoName)
    /\ UNCHANGED <<now, deleted, wal_file, engine, restarts, held, tasks, readVars, moreVars>>
    /\ mtime' = DirTimes(mtime, active', deleted', now)

\* fs::rename(<data>/n, <data>/.deleted/<n>_<timestamp>): every open handle on
\* the directory's files follows the directory
Retarget(cols, n, d) ==
    [x \in DOMAIN cols |->
        IF cols[x].loc = ActiveLoc(n) THEN [cols[x] EXCEPT !.loc = DeletedLoc(d)]
        ELSE cols[x]]

\* VectorStore::delete_collection -> RecoveryManager::soft_delete_collection
SoftDeleteCollection(n) ==
    /\ engine = "up"
    /\ \/ /\ n \notin DOMAIN active
          /\ last' = Called("delete_collection", n, <<>>, 0, "CollectionNotFound", NoName)
          /\ UNCHANGED <<active, deleted, collections, indexes, acked, durable, tomb, held, mtime>>
       \/ /\ n \in DOMAIN active
          /\ DeletedDirName(n, now) \in DOMAIN deleted
          /\ last' = Called("delete_collection", n, <<>>, 0, "Io", NoName)
          /\ UNCHANGED <<active, deleted, collections, indexes, acked, durable, tomb, held, mtime>>
       \/ /\ n \in DOMAIN active
          /\ DeletedDirName(n, now) \notin DOMAIN deleted
          /\ deleted' = Put(deleted, DeletedDirName(n, now), active[n])
          /\ active' = Drop(active, n)
          /\ collections' = Retarget(collections, n, DeletedDirName(n, now))
          /\ indexes' = Drop(indexes, n)
          /\ acked' = acked \ OfColl(acked, n)
          /\ durable' = durable \ OfColl(durable, n)
          /\ tomb' = tomb \ OfColl(tomb, n)
          /\ held' = Put(held, DeletedDirName(n, now), [name |-> n, ids |-> QueryIds(n)])
          /\ last' = Called("delete_collection", n, <<>>, 0, "Ok", NoName)
          /\ \E t \in RenamedDirTimes(mtime[ActiveLoc(n)], now) :
                mtime' = Put(Drop(mtime, ActiveLoc(n)),
                             DeletedLoc(DeletedDirName(n, now)), t)
    /\ UNCHANGED <<now, wal_file, wal_buf, engine, restarts, purged, tasks, readVars, moreVars>>

\* VectorStore::restore_collection(path, None) -> RecoveryManager::restore_collection
RestoreCollection(d) ==
    /\ engine = "up"
    /\ \/ /\ d \notin DOMAIN deleted
          /\ last' = Called("restore_collection", d, <<>>, 0, "Internal", NoName)
          /\ UNCHANGED <<active, indexes>>
       \/ /\ d \in DOMAIN deleted
          /\ NameFromPath(d) \in DOMAIN active
          /\ last' = Called("restore_collection", d, <<>>, 0, "Internal", NoName)
          /\ UNCHANGED <<active, indexes>>
       \/ /\ d \in DOMAIN deleted
          /\ NameFromPath(d) \notin DOMAIN active
          /\ active' = Put(active, NameFromPath(d), deleted[d])
          /\ indexes' = IF NameFromPath(d) \in DOMAIN collections
                        THEN Put(indexes, NameFromPath(d),
                                 NewIndex(collections[NameFromPath(d)].config.dimension))
                        ELSE indexes
          /\ last' = Called("restore_collection", d, <<>>, 0, "Ok", NameFromPath(d))
    /\ UNCHANGED <<now, deleted, wal_file, wal_buf, engine, collections, restarts,
                   acked, durable, tomb, purged, held, tasks, readVars, moreVars>>
    /\ mtime' = DirTimes(mtime, active', deleted', now)


\* VectorStore::insert -> StorageEngine::insert_vector -> CollectionStorage::insert,
\* then HnswRsIndex::insert when the collection has an index
Insert(n, v) ==
    /\ engine = "up"
    /\ \/ /\ n \notin DOMAIN collections
          /\ last' = Called("insert", n, <<v>>, 0, "CollectionNotFound", NoName)
          /\ UNCHANGED <<active, deleted, wal_buf, indexes, acked, tomb>>
       \/ /\ n \in DOMAIN collections
          /\ Len(v.data) # collections[n].config.dimension
          /\ last' = Called("insert", n, <<v>>, 0, "InvalidDimension", NoName)
          /\ UNCHANGED <<active, deleted, wal_buf, indexes, acked, tomb>>
       \/ /\ n \in DOMAIN collections
          /\ Len(v.data) = collections[n].config.dimension
          /\ wal_buf' = WalAppend(wal_buf, OpInsert(n, v))
          /\ active' = AppendActive(active, collections[n], <<v>>)
          /\ deleted' = AppendDeleted(deleted, collections[n], <<v>>)
          /\ IF n \in DOMAIN indexes /\ ~IndexAccepts(indexes[n], v)
             THEN /\ last' = Called("insert", n, <<v>>, 0, "InvalidDimension", NoName)
                  /\ UNCHANGED <<indexes, acked, tomb>>
             ELSE /\ indexes' = IF n \in DOMAIN indexes
                                THEN [indexes EXCEPT ![n] = IndexInsert(@, v)]
                                ELSE indexes
                  /\ acked' = acked \cup Pairs(n, <<v>>)
                  /\ tomb' = Untomb(tomb, Pairs(n, <<v>>))
                  /\ last' = Called("insert", n, <<v>>, 0, "Ok", NoName)
    /\ UNCHANGED <<now, wal_file, engine, collections, restarts, durable, purged, held, tasks, readVars, moreVars, mtime>>

\* VectorStore::batch_insert -> StorageEngine::batch_insert (vectors file first,
\* WAL second), then HnswRsIndex::batch_insert when the collection has an index
BatchInsert(n, vs) ==
    /\ engine = "up"
    /\ \/ /\ vs = <<>>
          /\ last' = Called("batch_insert", n, vs, 0, "Ok", NoName)
          /\ UNCHANGED <<active, deleted, wal_buf, indexes, acked, tomb>>
       \/ /\ vs # <<>>
          /\ n \notin DOMAIN collections
          /\ last' = Called("batch_insert", n, vs, 0, "CollectionNotFound", NoName)
          /\ UNCHANGED <<active, deleted, wal_buf, indexes, acked, tomb>>
       \/ /\ vs # <<>>
          /\ n \in DOMAIN collections
          /\ ~StorageAccepts(collections[n], vs)
          /\ last' = Called("batch_insert", n, vs, 0, "InvalidDimension", NoName)
          /\ UNCHANGED <<active, deleted, wal_buf, indexes, acked, tomb>>
       \/ /\ vs # <<>>
          /\ n \in DOMAIN collections
          /\ StorageAccepts(collections[n], vs)
          /\ active' = AppendActive(active, collections[n], vs)
          /\ deleted' = AppendDeleted(deleted, collections[n], vs)
          /\ wal_buf' = WalAppend(wal_buf, OpBatch(n, vs))
          /\ indexes' = IF n \in DOMAIN indexes
                        THEN [indexes EXCEPT ![n] = IndexBatchInsert(@, vs)]
                        ELSE indexes
          /\ IF n \in DOMAIN indexes /\ GoodPrefix(indexes[n], vs) # Len(vs)
             THEN /\ last' = Called("batch_insert", n, vs, 0, "InvalidDimension", NoName)
                  /\ UNCHANGED <<acked, tomb>>
             ELSE /\ acked' = acked \cup Pairs(n, vs)
                  /\ tomb' = Untomb(tomb, Pairs(n, vs))
                  /\ last' = Called("batch_insert", n, vs, 0, "Ok", NoName)
    /\ UNCHANGED <<now, wal_file, engine, collections, restarts, durable, purged, held, tasks, readVars, moreVars, mtime>>

\* CollectionStorage::delete: a placeholder, nothing is removed from vectors.bin
StorageDelete(file, i) == file

\* VectorStore::delete -> StorageEngine::delete_vector -> CollectionStorage::delete,
\* then HnswRsIndex::delete; the call returns what the storage returned (false)
Delete(n, i) ==
    /\ engine = "up"
    /\ \/ /\ n \notin DOMAIN collections
          /\ last' = Called("delete", n, <<>>, i, "CollectionNotFound", NoName)
          /\ UNCHANGED <<active, deleted, wal_buf, indexes, acked, durable, tomb>>
       \/ /\ n \in DOMAIN collections
          /\ wal_buf' = WalAppend(wal_buf, OpDeleteVector(n, i))
          /\ active' = [d \in DOMAIN active |->
                           [active[d] EXCEPT !.vec =
                               IF collections[n].loc = ActiveLoc(d)
                               THEN StorageDelete(@, i) ELSE @]]
          /\ deleted' = [d \in DOMAIN deleted |->
                           [deleted[d] EXCEPT !.vec =
                               IF collections[n].loc = DeletedLoc(d)
                               THEN StorageDelete(@, i) ELSE @]]
          /\ indexes' = IF n \in DOMAIN indexes
                        THEN [indexes EXCEPT ![n] = IndexDelete(@, i)]
                        ELSE indexes
          /\ acked' = acked \ {[coll |-> n, id |-> i]}
          /\ durable' = durable \ {[coll |-> n, id |-> i]}
          /\ tomb' = Untomb(tomb, {[coll |-> n, id |-> i]})
                      \cup {[coll |-> n, id |-> i, synced |-> FALSE]}
          /\ last' = Called("delete", n, <<>>, i, "Ok", <<"false">>)
    /\ UNCHANGED <<now, wal_file, engine, collections, restarts, purged, held, tasks, readVars, moreVars, mtime>>

\* CollectionStorage::get: a placeholder, Ok(None) whatever the file holds
StorageGet(file, i) == <<>>

\* VectorStore::get -> StorageEngine::get_vector -> CollectionStorage::get; the
\* returned Option is <<>> for None and <<v>> for Some(v)
Get(n, i) ==
    /\ engine = "up"
    /\ last' = IF n \in DOMAIN collections
               THEN Called("get", n, <<>>, i, "Ok", StorageGet(GetAllVectors(n), i))
               ELSE Called("get", n, <<>>, i, "CollectionNotFound", NoName)
    /\ UNCHANGED <<now, active, deleted, wal_file, wal_buf, engine, collections, indexes,
                   restarts, acked, durable, tomb, purged, held, tasks, readVars, moreVars, mtime>>

\* VectorStore::update: self.delete(collection, &vector.id).await? and then
\* self.insert(collection, vector).await?; what the delete did stays done when
\* the insert returns an error
Update(n, v) ==
    /\ engine = "up"
    /\ \/ /\ n \notin DOMAIN collections
          /\ last' = Called("update", n, <<v>>, v.id, "CollectionNotFound", NoName)
          /\ UNCHANGED <<active, deleted, wal_buf, indexes, acked, durable, tomb>>
       \/ /\ n \in DOMAIN collections
          /\ Len(v.data) # collections[n].config.dimension
          /\ wal_buf' = WalAppend(wal_buf, OpDeleteVector(n, v.id))
          /\ indexes' = IF n \in DOMAIN indexes
                        THEN [indexes EXCEPT ![n] = IndexDelete(@, v.id)]
                        ELSE indexes
          /\ acked' = acked \ Pairs(n, <<v>>)
          /\ durable' = durable \ Pairs(n, <<v>>)
          /\ tomb' = Untomb(tomb, Pairs(n, <<v>>))
                      \cup {[coll |-> n, id |-> v.id, synced |-> FALSE]}
          /\ last' = Called("update", n, <<v>>, v.id, "InvalidDimension", NoName)
          /\ UNCHANGED <<active, deleted>>
       \/ /\ n \in DOMAIN collections
          /\ Len(v.data) = collections[n].config.dimension
          /\ wal_buf' = WalAppend(WalAppend(wal_buf, OpDeleteVector(n, v.id)), OpInsert(n, v))
          /\ active' = AppendActive(active, collections[n], <<v>>)
          /\ deleted' = AppendDeleted(deleted, collections[n], <<v>>)
          /\ durable' = durable \ Pairs(n, <<v>>)
          /\ IF n \in DOMAIN indexes /\ ~IndexAccepts(indexes[n], v)
             THEN /\ indexes' = [indexes EXCEPT ![n] = IndexDelete(@, v.id)]
                  /\ acked' = acked \ Pairs(n, <<v>>)
                  /\ tomb' = Untomb(tomb, Pairs(n, <<v>>))
                              \cup {[coll |-> n, id |-> v.id, synced |-> FALSE]}
                  /\ last' = Called("update", n, <<v>>, v.id, "InvalidDimension", NoName)
             ELSE /\ indexes' = IF n \in DOMAIN indexes
                                THEN [indexes EXCEPT ![n] =
                                         IndexInsert(IndexDelete(@, v.id), v)]
                                ELSE indexes
                  /\ acked' = acked \cup Pairs(n, <<v>>)
                  /\ tomb' = Untomb(tomb, Pairs(n, <<v>>))
                  /\ last' = Called("update", n, <<v>>, v.id, "Ok", NoName)
    /\ UNCHANGED <<now, wal_file, engine, collections, restarts, purged, held, tasks, readVars, moreVars, mtime>>

\* WriteAheadLog::flush_internal: the buffer is written to the file and fsynced
WalFlushed(file, buf) == file \o buf

\* VectorStore::sync -> StorageEngine::sync: the WAL buffer is flushed and every
\* collection file fsynced
Sync ==
    /\ engine = "up"
    /\ wal_file' = WalFlushed(wal_file, wal_buf)
    /\ wal_buf' = <<>>
    /\ durable' = acked
    /\ tomb' = Synced(tomb)
    /\ purged' = Synced(purged)
    /\ last' = Called("sync", NoName, <<>>, 0, "Ok", NoName)
    /\ UNCHANGED <<now, active, deleted, engine, collections, indexes, restarts,
                   acked, held, tasks, readVars, moreVars, mtime>>


(***************************************************************************)
(* Kill and reopen: VectorStore::new -> StorageEngine::new (discover,      *)
(* recover) -> rebuild_indexes.  The WAL buffer dies with the process; what *)
(* was written to a file is still there.                                   *)
(***************************************************************************)
\* StorageEngine::discover_collections: every directory with a metadata.json is
\* loaded and registered under the name its metadata gives; when two
\* directories give the same name the one read_dir yields last stays
DiscoverChoices(act) ==
    {m \in [{act[d].meta.name : d \in DOMAIN act} -> DOMAIN act] :
        \A n \in DOMAIN m : act[m[n]].meta.name = n}

Discovered(act, m) == [n \in DOMAIN m |-> Handle(act[m[n]].meta, ActiveLoc(m[n]))]

\* RecoveryManager::discover_existing_collections: the directories under
\* <data>/ that hold a vectors.bin or an index.bin
DiscoverExisting(act) == DOMAIN act

\* RecoveryManager::validate_operation: Ok or not, on the projected set
ValidOp(op, existing) ==
    CASE op.type = "CreateCollection" -> op.config.name \notin existing
      [] op.type = "DeleteCollection" -> op.name \in existing
      [] op.type = "InsertVector" -> op.collection \in existing
      [] op.type = "BatchInsert" ->
            /\ op.collection \in existing
            /\ \A k \in 1..Len(op.vectors) : Len(op.vectors[k].data) # 0
      [] op.type = "DeleteVector" -> op.collection \in existing

\* RecoveryManager::validate_operation: the projected set after a valid operation
Project(op, existing) ==
    CASE op.type = "CreateCollection" -> existing \cup {op.config.name}
      [] op.type = "DeleteCollection" -> existing \ {op.name}
      [] OTHER -> existing

\* RecoveryManager::validate_operations: the valid operations, in order
RECURSIVE ValidateOperations(_, _)
ValidateOperations(ops, existing) ==
    IF ops = <<>> THEN <<>>
    ELSE IF ValidOp(Head(ops), existing)
         THEN <<Head(ops)>> \o ValidateOperations(Tail(ops), Project(Head(ops), existing))
         ELSE ValidateOperations(Tail(ops), existing)

\* StorageEngine::apply_operation on st = [act, cols, ok]
ApplyOperation(st, op) ==
    CASE op.type = "CreateCollection" ->
            [st EXCEPT !.act = StorageNew(st.act, op.config),
                       !.cols = Put(st.cols, op.config.name,
                                    Handle(op.config, ActiveLoc(op.config.name)))]
      [] op.type = "DeleteCollection" ->
            [st EXCEPT !.cols = Drop(st.cols, op.name)]
      [] op.type = "InsertVector" ->
            IF op.collection \notin DOMAIN st.cols THEN st
            ELSE IF ~StorageAccepts(st.cols[op.collection], <<op.vector>>)
                 THEN [st EXCEPT !.ok = FALSE]
                 ELSE [st EXCEPT !.act =
                          AppendActive(st.act, st.cols[op.collection], <<op.vector>>)]
      [] op.type = "BatchInsert" ->
            IF op.collection \notin DOMAIN st.cols \/ op.vectors = <<>> THEN st
            ELSE IF ~StorageAccepts(st.cols[op.collection], op.vectors)
                 THEN [st EXCEPT !.ok = FALSE]
                 ELSE [st EXCEPT !.act =
                          AppendActive(st.act, st.cols[op.collection], op.vectors)]
      [] op.type = "DeleteVector" -> st

\* StorageEngine::recover: the operations are applied in order; the first error
\* ends the replay and fails StorageEngine::new
RECURSIVE Recover(_, _)
Recover(st, ops) ==
    IF ops = <<>> \/ ~st.ok THEN st ELSE Recover(ApplyOperation(st, Head(ops)), Tail(ops))

\* VectorStore::rebuild_indexes, for one collection: a batch_insert that fails
\* is logged and the index stays as the failed call left it
RebuildIndex(act, h) ==
    IndexBatchInsert(NewIndex(h.config.dimension), FileOf(act, EmptyMap, h))

\* the process is killed and VectorStore::new is called on the data directory
Reopen ==
    /\ wal_buf' = <<>>
    /\ \E m \in DiscoverChoices(active) :
         LET ops == ValidateOperations(wal_file, DiscoverExisting(active))
             st == Recover([act |-> active, cols |-> Discovered(active, m), ok |-> TRUE], ops)
         IN /\ active' = st.act
            /\ IF st.ok
               THEN /\ engine' = "up"
                    /\ collections' = st.cols
                    /\ indexes' = [n \in DOMAIN st.cols |-> RebuildIndex(st.act, st.cols[n])]
                    /\ last' = Called("new", NoName, <<>>, 0, "Ok", NoName)
               ELSE /\ engine' = "failed"
                    /\ collections' = EmptyMap
                    /\ indexes' = EmptyMap
                    /\ last' = Called("new", NoName, <<>>, 0, "InvalidDimension", NoName)
    /\ acked' = durable
    /\ tomb' = Surviving(tomb)
    /\ purged' = Surviving(purged)
    /\ UNCHANGED <<now, deleted, wal_file, durable, held, tasks, readVars, moreVars>>
    /\ mtime' = DirTimes(mtime, active', deleted', now)

Restart ==
    /\ restarts < MaxRestarts
    /\ restarts' = restarts + 1
    /\ Reopen

(***************************************************************************)
(* The inputs of the model and the specification of sequential use.        *)
(***************************************************************************)
Vectors == {Vec(1, 1), Vec(1, 2)}
Batches == {<<>>, <<Vec(1, 1), Vec(2, 1)>>, <<Vec(1, 1), Vec(2, 2)>>}
Ids == {1}

\* the calls that log an operation stop when the WAL of the model is full
Next ==
    \/ WalLen < MaxWal /\ \E d \in Dims : CreateCollection(Config(NameA, d))
    \/ WalLen < MaxWal /\ HardDeleteCollection(NameA)
    \/ SoftDeleteCollection(NameA)
    \/ RestoreCollection(DeletedDirName(NameA, 0))
    \/ WalLen < MaxWal /\ \E v \in Vectors : Insert(NameA, v)
    \/ WalLen < MaxWal /\ \E vs \in Batches : BatchInsert(NameA, vs)
    \/ WalLen < MaxWal /\ \E i \in Ids : Delete(NameA, i)
    \/ Sync
    \/ Restart

Spec == Init /\ [][Next]_vars

(***************************************************************************)
(* Durability: the calls that matter for what a reopen finds, with a WAL   *)
(* long enough for two generations of one collection.                      *)
(***************************************************************************)
MaxWalDurable == 5

NextDurable ==
    \/ WalLen < MaxWalDurable /\ \E d \in Dims : CreateCollection(Config(NameA, d))
    \/ WalLen < MaxWalDurable /\ HardDeleteCollection(NameA)
    \/ WalLen < MaxWalDurable /\ \E v \in Vectors : Insert(NameA, v)
    \/ Sync
    \/ Restart

SpecDurable == Init /\ [][NextDurable]_vars

(***************************************************************************)
(* Soft delete and restore over names with and without an underscore, at   *)
(* different times of the clock.                                           *)
(***************************************************************************)
Names == {NameA, NameAB}

NextNames ==
    \/ Tick
    \/ WalLen < MaxWal /\ \E n \in Names : CreateCollection(Config(n, 1))
    \/ WalLen < MaxWal /\ \E n \in Names : Insert(n, Vec(1, 1))
    \/ \E n \in Names : SoftDeleteCollection(n)
    \/ \E n \in Names, t \in 0..MaxTime : RestoreCollection(DeletedDirName(n, t))

SpecNames == Init /\ [][NextNames]_vars

(***************************************************************************)
(* Concurrent create_collection calls.  StorageEngine::create_collection   *)
(* awaits between its steps and holds no lock across them, so the steps of *)
(* two calls interleave; each step below is one stretch between awaits.    *)
(***************************************************************************)
\* the read-locked check: the name is in the map, or the call goes on
CreateCheck(t, cfg) ==
    /\ engine = "up"
    /\ tasks[t].pc = "idle"
    /\ tasks' = [tasks EXCEPT ![t] =
                    IF cfg.name \in DOMAIN collections
                    THEN [tasks[t] EXCEPT !.pc = "done", !.config = cfg,
                                          !.res = "CollectionAlreadyExists"]
                    ELSE [tasks[t] EXCEPT !.pc = "new", !.config = cfg]]
    /\ UNCHANGED <<now, active, deleted, wal_file, wal_buf, engine, collections, indexes,
                   last, restarts, acked, durable, tomb, purged, held, readVars, moreVars, mtime>>

\* CollectionStorage::new(collection_dir, config)
CreateStorage(t) ==
    /\ tasks[t].pc = "new"
    /\ active' = StorageNew(active, tasks[t].config)
    /\ tasks' = [tasks EXCEPT ![t].pc = "log"]
    /\ UNCHANGED <<now, deleted, wal_file, wal_buf, engine, collections, indexes,
                   last, restarts, acked, durable, tomb, purged, held, readVars, moreVars>>
    /\ mtime' = DirTimes(mtime, active', deleted', now)

\* self.wal.append(CreateCollection(config))
CreateLog(t) ==
    /\ tasks[t].pc = "log"
    /\ wal_buf' = WalAppend(wal_buf, OpCreate(tasks[t].config))
    /\ tasks' = [tasks EXCEPT ![t].pc = "insert"]
    /\ UNCHANGED <<now, active, deleted, wal_file, engine, collections, indexes,
                   last, restarts, acked, durable, tomb, purged, held, readVars, moreVars, mtime>>

\* self.collections.write().insert(name, storage): no second check
CreateRegister(t) ==
    /\ tasks[t].pc = "insert"
    /\ collections' = Put(collections, tasks[t].config.name,
                          Handle(tasks[t].config, ActiveLoc(tasks[t].config.name)))
    /\ tasks' = [tasks EXCEPT ![t].pc = "index"]
    /\ UNCHANGED <<now, active, deleted, wal_file, wal_buf, engine, indexes,
                   last, restarts, acked, durable, tomb, purged, held, readVars, moreVars, mtime>>

\* VectorStore::create_collection: self.indexes.insert(name, index); Ok(())
CreateIndex(t) ==
    /\ tasks[t].pc = "index"
    /\ indexes' = Put(indexes, tasks[t].config.name, NewIndex(tasks[t].config.dimension))
    /\ tasks' = [tasks EXCEPT ![t].pc = "done", ![t].res = "Ok"]
    /\ UNCHANGED <<now, active, deleted, wal_file, wal_buf, engine, collections,
                   last, restarts, acked, durable, tomb, purged, held, readVars, moreVars, mtime>>

NextCreate ==
    \/ \E t \in Tasks, d \in Dims : CreateCheck(t, Config(NameA, d))
    \/ \E t \in Tasks : CreateStorage(t)
    \/ \E t \in Tasks : CreateLog(t)
    \/ \E t \in Tasks : CreateRegister(t)
    \/ \E t \in Tasks : CreateIndex(t)
    \/ WalLen < MaxWal /\ \E v \in Vectors : Insert(NameA, v)

SpecCreate == Init /\ [][NextCreate]_vars

(***************************************************************************)
(* The write-ahead log under concurrent callers.  An entry of the model is *)
(* one large batch of EntryBytes bytes; its vector id stands for the       *)
(* WALEntry id, the number of the push that put it into the buffer.        *)
(***************************************************************************)
FlushThreshold == 262144   \* 256 * 1024
EntryBytes == 131072
MaxWalEntries == 4

\* the ids of the entries of a sequence of operations, in order
RECURSIVE EntryIds(_)
EntryIds(ops) ==
    IF ops = <<>> THEN <<>> ELSE <<Head(ops).vector.id>> \o EntryIds(Tail(ops))

RECURSIVE ChunksHeld(_)
ChunksHeld(T) ==
    IF T = {} THEN 0
    ELSE LET t == CHOOSE x \in T : TRUE IN Len(tasks[t].chunk) + ChunksHeld(T \ {t})

\* the entries pushed so far: in the file, in the buffer, or taken by a flush
Pushed == Len(wal_file) + Len(wal_buf) + ChunksHeld(Tasks)

\* the entries whose append has returned
Returned == (1..Pushed) \ {tasks[t].arg : t \in {x \in Tasks : tasks[x].op = "append" /\ tasks[x].pc # "idle"}}

\* WriteAheadLog::append: the entry is pushed under the buffer lock; the caller
\* goes on to flush_internal when the buffer is over the threshold
WalAppendPush(t) ==
    /\ tasks[t].pc = "idle"
    /\ Pushed < MaxWalEntries
    /\ wal_buf' = WalAppend(wal_buf, OpInsert(NameA, Vec(Pushed + 1, 1)))
    /\ tasks' = [tasks EXCEPT ![t] =
                    [@ EXCEPT !.op = "append", !.arg = Pushed + 1, !.need = {},
                              !.res = IF Len(wal_buf') * EntryBytes > FlushThreshold
                                      THEN "none" ELSE "Ok",
                              !.pc = IF Len(wal_buf') * EntryBytes > FlushThreshold
                                     THEN "take" ELSE "idle"]]
    /\ UNCHANGED <<now, active, deleted, wal_file, engine, collections, indexes,
                   last, restarts, acked, durable, tomb, purged, held, readVars, moreVars, mtime>>

\* WriteAheadLog::sync is called: it is flush_internal
WalSyncCall(t) ==
    /\ tasks[t].pc = "idle"
    /\ tasks' = [tasks EXCEPT ![t] =
                    [@ EXCEPT !.op = "sync", !.arg = 0, !.need = Returned,
                              !.res = "none", !.pc = "take"]]
    /\ UNCHANGED <<now, active, deleted, wal_file, wal_buf, engine, collections, indexes,
                   last, restarts, acked, durable, tomb, purged, held, readVars, moreVars, mtime>>

\* flush_internal, first block: under the buffer lock the buffer is cloned and
\* cleared, or the call returns Ok at once when the buffer is empty
WalFlushTake(t) ==
    /\ tasks[t].pc = "take"
    /\ wal_buf' = <<>>
    /\ tasks' = [tasks EXCEPT ![t] =
                    IF wal_buf = <<>>
                    THEN [@ EXCEPT !.pc = "idle", !.res = "Ok"]
                    ELSE [@ EXCEPT !.pc = "write", !.chunk = wal_buf]]
    /\ UNCHANGED <<now, active, deleted, wal_file, engine, collections, indexes,
                   last, restarts, acked, durable, tomb, purged, held, readVars, moreVars, mtime>>

\* flush_internal, second block: under the file lock write_all and sync_all
WalFlushWrite(t) ==
    /\ tasks[t].pc = "write"
    /\ wal_file' = WalFlushed(wal_file, tasks[t].chunk)
    /\ tasks' = [tasks EXCEPT ![t] = [@ EXCEPT !.pc = "idle", !.res = "Ok", !.chunk = <<>>]]
    /\ UNCHANGED <<now, active, deleted, wal_buf, engine, collections, indexes,
                   last, restarts, acked, durable, tomb, purged, held, readVars, moreVars, mtime>>

NextWal ==
    \/ \E t \in Tasks : WalAppendPush(t)
    \/ \E t \in Tasks : WalSyncCall(t)
    \/ \E t \in Tasks : WalFlushTake(t)
    \/ \E t \in Tasks : WalFlushWrite(t)

SpecWal == Init /\ [][NextWal]_vars

(***************************************************************************)
(* WriteAheadLog::read_all over a damaged file.  The file is a sequence of *)
(* 4-byte words: a frame is the magic word, the length word and the entry; *)
(* an entry of the model is two words, its checksum and its operation, and *)
(* a length counts words.                                                  *)
(***************************************************************************)
WalEntryMagic == -559038737    \* 0xDEADBEEF, the 32 bits read as a signed integer
WordBytes == 4
MaxEntryBytes == 104857600     \* 100 * 1024 * 1024
MaxWords == 9

OpWords == {1, 2}
Words == {0, 1, 2, WalEntryMagic}

\* calculate_checksum of an operation (a stand-in for CRC32 on the model's words)
Checksum(w) == (2 * w) % 3

\* append's frame: [MAGIC][LENGTH][DATA]
Frame(w) == <<WalEntryMagic, 2, Checksum(w), w>>

RECURSIVE Frames(_)
Frames(ops) == IF ops = <<>> THEN <<>> ELSE Frame(Head(ops)) \o Frames(Tail(ops))

\* length > 100 * 1024 * 1024, the length word being unsigned: a word with the
\* top bit set is over 2^31
TooLarge(len) == len < 0 \/ len * WordBytes > MaxEntryBytes

\* bincode::deserialize::<WALEntry>(&entry_data) succeeds
Deserializes(data) == Len(data) = 2 /\ data[2] \in OpWords

\* calculated_checksum == entry.checksum
ChecksumOk(data) == data[1] = Checksum(data[2])

\* the position of the last word of the entry whose magic word is at pos
FrameEndOffByOne(pos, len) == pos + len
FrameEnd(pos, len) == pos + 1 + len

\* the loop of read_all from position pos, with the operations read so far
RECURSIVE ReadFrom(_, _, _)
ReadFrom(f, pos, ops) ==
    IF pos > Len(f) THEN ops
    ELSE IF f[pos] # WalEntryMagic THEN ReadFrom(f, pos + 1, ops)
    ELSE IF pos + 1 > Len(f) THEN ops
    ELSE IF TooLarge(f[pos + 1]) THEN ReadFrom(f, pos + 2, ops)
    ELSE IF FrameEnd(pos, f[pos + 1]) > Len(f) THEN ops
    ELSE LET data == SubSeq(f, pos + 2, FrameEnd(pos, f[pos + 1]))
             next == FrameEnd(pos, f[pos + 1]) + 1
         IN IF ~Deserializes(data) THEN ReadFrom(f, next, ops)
            ELSE IF ~ChecksumOk(data) THEN ReadFrom(f, next, ops)
            ELSE ReadFrom(f, next, Append(ops, data[2]))

\* WriteAheadLog::read_all
ReadAll(f) == ReadFrom(f, 1, <<>>)

\* a frame is written whole to a file that is intact so far
WriteFrame(w) ==
    /\ valid_prefix.kind = "clean"
    /\ Len(wal_words) + 4 <= MaxWords
    /\ wal_words' = wal_words \o Frame(w)
    /\ valid_prefix' = [valid_prefix EXCEPT !.ops = Append(@, w)]
    /\ read_ops' = [done |-> FALSE, ops |-> <<>>]
    /\ UNCHANGED <<now, active, deleted, wal_file, wal_buf, engine, collections, indexes,
                   last, restarts, acked, durable, tomb, purged, held, tasks, moreVars, mtime>>

\* what follows the intact frames when the damage begins: a word that is not
\* the magic word, a length over the limit, an entry that does not deserialize
\* or an entry whose checksum does not match
FirstDamage ==
    {<<0>>, <<1>>, <<2>>,
     <<WalEntryMagic, WalEntryMagic>>,
     <<WalEntryMagic, 1, 0>>, <<WalEntryMagic, 2, 0, 0>>,
     <<WalEntryMagic, 2, 0, 1>>, <<WalEntryMagic, 2, 2, 2>>}

CorruptFrame(ws) ==
    /\ valid_prefix.kind = "clean"
    /\ Len(wal_words) + Len(ws) <= MaxWords
    /\ wal_words' = wal_words \o ws
    /\ valid_prefix' = [valid_prefix EXCEPT !.kind = "corrupt"]
    /\ read_ops' = [done |-> FALSE, ops |-> <<>>]
    /\ UNCHANGED <<now, active, deleted, wal_file, wal_buf, engine, collections, indexes,
                   last, restarts, acked, durable, tomb, purged, held, tasks, moreVars, mtime>>

\* the damaged suffix goes on with any word
AppendWord(w) ==
    /\ valid_prefix.kind = "corrupt"
    /\ Len(wal_words) < MaxWords
    /\ wal_words' = Append(wal_words, w)
    /\ read_ops' = [done |-> FALSE, ops |-> <<>>]
    /\ UNCHANGED <<now, active, deleted, wal_file, wal_buf, engine, collections, indexes,
                   last, restarts, acked, durable, tomb, purged, held, tasks, valid_prefix, moreVars, mtime>>

\* the last frame of an intact file loses its last k words
TruncateTail(k) ==
    /\ valid_prefix.kind = "clean"
    /\ valid_prefix.ops # <<>>
    /\ wal_words' = SubSeq(wal_words, 1, Len(wal_words) - k)
    /\ valid_prefix' = [ops |-> SubSeq(valid_prefix.ops, 1, Len(valid_prefix.ops) - 1),
                        kind |-> "truncated"]
    /\ read_ops' = [done |-> FALSE, ops |-> <<>>]
    /\ UNCHANGED <<now, active, deleted, wal_file, wal_buf, engine, collections, indexes,
                   last, restarts, acked, durable, tomb, purged, held, tasks, moreVars, mtime>>

DoReadAll ==
    /\ ~read_ops.done
    /\ read_ops' = [done |-> TRUE, ops |-> ReadAll(wal_words)]
    /\ UNCHANGED <<now, active, deleted, wal_file, wal_buf, engine, collections, indexes,
                   last, restarts, acked, durable, tomb, purged, held, tasks,
                   wal_words, valid_prefix, moreVars, mtime>>

NextRead ==
    \/ \E w \in OpWords : WriteFrame(w)
    \/ \E ws \in FirstDamage : CorruptFrame(ws)
    \/ \E w \in Words : AppendWord(w)
    \/ \E k \in 1..3 : TruncateTail(k)
    \/ DoReadAll

SpecRead == Init /\ [][NextRead]_vars

(***************************************************************************)
(* Concurrent insert and batch_insert calls of the facade.  Each call      *)
(* awaits the storage engine before it touches the index; the steps of two *)
(* calls interleave, and a query reads the index between any two steps.    *)
(***************************************************************************)
\* VectorStore::insert -> StorageEngine::insert_vector: the WAL append, the
\* vectors file, and after both have returned the index
InsertStepsIndexFirst == <<"wal", "index", "file">>
InsertSteps == <<"wal", "file", "index">>

\* VectorStore::batch_insert -> StorageEngine::batch_insert: the vectors file,
\* the WAL append, and after both have returned the index
BatchSteps == <<"file", "wal", "index">>

\* the operation a call logs
LoggedOp(t) ==
    IF tasks[t].op = "insert"
    THEN OpInsert(tasks[t].config.name, tasks[t].vecs[1])
    ELSE OpBatch(tasks[t].config.name, tasks[t].vecs)

\* the call has finished a step: it goes on, or returns Ok after the last one
Advance(task) ==
    IF Len(task.todo) = 1
    THEN [task EXCEPT !.todo = <<>>, !.pc = "idle", !.res = "Ok"]
    ELSE [task EXCEPT !.todo = Tail(@)]

\* the facade's checks: get_collection_config, then the dimension of every vector
InsertCall(t, op, n, vs) ==
    /\ engine = "up"
    /\ tasks[t].pc = "idle"
    /\ tasks' = [tasks EXCEPT ![t] =
                    IF n \notin DOMAIN collections
                    THEN [@ EXCEPT !.op = op, !.vecs = vs, !.res = "CollectionNotFound"]
                    ELSE IF ~StorageAccepts(collections[n], vs)
                    THEN [@ EXCEPT !.op = op, !.vecs = vs, !.res = "InvalidDimension"]
                    ELSE [@ EXCEPT !.op = op, !.vecs = vs, !.res = "none", !.pc = "run",
                                   !.config = collections[n].config,
                                   !.todo = IF op = "insert" THEN InsertSteps
                                            ELSE BatchSteps]]
    /\ UNCHANGED <<now, active, deleted, wal_file, wal_buf, engine, collections, indexes,
                   last, restarts, acked, durable, tomb, purged, held, readVars, moreVars, mtime>>

\* self.wal.append(&op).await
InsertLog(t) ==
    /\ tasks[t].pc = "run"
    /\ Head(tasks[t].todo) = "wal"
    /\ wal_buf' = WalAppend(wal_buf, LoggedOp(t))
    /\ tasks' = [tasks EXCEPT ![t] = Advance(@)]
    /\ UNCHANGED <<now, active, deleted, wal_file, engine, collections, indexes,
                   last, restarts, acked, durable, tomb, purged, held, readVars, moreVars, mtime>>

\* CollectionStorage::insert / batch_insert: one data_file.append of the record(s)
InsertStore(t) ==
    /\ tasks[t].pc = "run"
    /\ Head(tasks[t].todo) = "file"
    /\ LET n == tasks[t].config.name IN
       IF n \in DOMAIN collections
       THEN /\ active' = AppendActive(active, collections[n], tasks[t].vecs)
            /\ deleted' = AppendDeleted(deleted, collections[n], tasks[t].vecs)
            /\ tasks' = [tasks EXCEPT ![t] = Advance(@)]
       ELSE /\ tasks' = [tasks EXCEPT ![t] =
                            [@ EXCEPT !.todo = <<>>, !.pc = "idle",
                                      !.res = "CollectionNotFound"]]
            /\ UNCHANGED <<active, deleted>>
    /\ UNCHANGED <<now, wal_file, wal_buf, engine, collections, indexes,
                   last, restarts, acked, durable, tomb, purged, held, readVars, moreVars, mtime>>

\* if let Some(mut index) = self.indexes.get_mut(collection): insert or
\* batch_insert under the exclusive guard of the map entry
InsertIndex(t) ==
    /\ tasks[t].pc = "run"
    /\ Head(tasks[t].todo) = "index"
    /\ LET n == tasks[t].config.name IN
       IF n \in DOMAIN indexes
       THEN /\ indexes' = [indexes EXCEPT ![n] = IndexBatchInsert(@, tasks[t].vecs)]
            /\ tasks' = [tasks EXCEPT ![t] =
                            IF GoodPrefix(indexes[n], tasks[t].vecs) = Len(tasks[t].vecs)
                            THEN Advance(@)
                            ELSE [@ EXCEPT !.todo = <<>>, !.pc = "idle",
                                           !.res = "InvalidDimension"]]
       ELSE /\ tasks' = [tasks EXCEPT ![t] = Advance(@)]
            /\ UNCHANGED indexes
    /\ UNCHANGED <<now, active, deleted, wal_file, wal_buf, engine, collections,
                   last, restarts, acked, durable, tomb, purged, held, readVars, moreVars, mtime>>

ConcurrentVectors == {Vec(1, 1), Vec(2, 1), Vec(1, 2)}
ConcurrentBatches == {<<Vec(2, 1), Vec(3, 1)>>}

NextVisible ==
    \/ CreateCollection(Config(NameA, 1))
    \/ WalLen < MaxWal /\ \E t \in Tasks, v \in ConcurrentVectors :
                              InsertCall(t, "insert", NameA, <<v>>)
    \/ WalLen < MaxWal /\ \E t \in Tasks, vs \in ConcurrentBatches :
                              InsertCall(t, "batch_insert", NameA, vs)
    \/ \E t \in Tasks : InsertLog(t)
    \/ \E t \in Tasks : InsertStore(t)
    \/ \E t \in Tasks : InsertIndex(t)

SpecVisible == Init /\ [][NextVisible]_vars

(***************************************************************************)
(* The StorageEngine's operations and the lock on its collections map.     *)
(* An operation is the sequence of its steps: taking and dropping the      *)
(* parking_lot RwLock guard, what it does to the map under the guard, and  *)
(* its awaits.  Between two steps of one call any other call may run.      *)
(***************************************************************************)
CreateProgram == <<"rlock", "absent", "unlock", "new", "wal", "wlock", "put", "unlock">>
DeleteProgram == <<"rlock", "present", "unlock", "wal", "wlock", "remove", "unlock", "rmdir">>
InsertVectorProgramGuardKept == <<"rlock", "clone", "wal", "unlock", "file">>
InsertVectorProgram == <<"rlock", "clone", "unlock", "wal", "file">>
BatchInsertProgram == <<"rlock", "clone", "unlock", "file", "wal">>
GetVectorProgram == <<"rlock", "clone", "unlock", "get">>
DeleteVectorProgram == <<"rlock", "clone", "unlock", "wal", "delete">>
SyncProgram == <<"flush", "rlock", "clone_all", "unlock", "sync_files">>
GetAllVectorsProgram == <<"rlock", "clone", "unlock", "iter">>

ProgramOf(op) ==
    CASE op = "create_collection" -> CreateProgram
      [] op = "delete_collection" -> DeleteProgram
      [] op = "insert_vector" -> InsertVectorProgram
      [] op = "batch_insert" -> BatchInsertProgram
      [] op = "get_vector" -> GetVectorProgram
      [] op = "delete_vector" -> DeleteVectorProgram
      [] op = "sync" -> SyncProgram
      [] op = "get_all_vectors" -> GetAllVectorsProgram

\* the steps at which the call is suspended at an .await
AwaitSteps == {"new", "wal", "file", "get", "delete", "flush", "sync_files", "iter"}

\* the steps that read or write the collections map
MapSteps == {"absent", "present", "clone", "clone_all", "put", "remove"}

\* the operation returns: `?` or `return Err` inside the block drops the guard
Returns(task, res) ==
    [task EXCEPT !.todo = <<>>, !.pc = "idle", !.res = res, !.lock = "none"]

\* the step is done: the call goes on, or returns res after its last step
Proceeds(task, res) ==
    IF Len(task.todo) = 1 THEN Returns(task, res) ELSE [task EXCEPT !.todo = Tail(@)]

AtStep(t, step) == tasks[t].pc = "run" /\ Head(tasks[t].todo) = step

\* the WALOperation an operation appends
EngineOp(t) ==
    CASE tasks[t].op = "create_collection" -> OpCreate(tasks[t].config)
      [] tasks[t].op = "delete_collection" -> OpDeleteCollection(tasks[t].config.name)
      [] tasks[t].op = "insert_vector" -> OpInsert(tasks[t].config.name, tasks[t].vecs[1])
      [] tasks[t].op = "batch_insert" -> OpBatch(tasks[t].config.name, tasks[t].vecs)
      [] tasks[t].op = "delete_vector" -> OpDeleteVector(tasks[t].config.name, tasks[t].arg)

\* an operation of the storage engine is called
EngineCall(t, op, cfg, vs, i) ==
    /\ engine = "up"
    /\ tasks[t].pc = "idle"
    /\ tasks' = [tasks EXCEPT ![t] =
                    [@ EXCEPT !.op = op, !.config = cfg, !.vecs = vs, !.arg = i,
                              !.res = "none", !.pc = "run", !.todo = ProgramOf(op),
                              !.storage = <<>>]]
    /\ UNCHANGED <<now, active, deleted, wal_file, wal_buf, engine, collections, indexes,
                   last, restarts, acked, durable, tomb, purged, held, readVars, moreVars, mtime>>

\* self.collections.read(): granted while no caller holds the write guard
LockRead(t) ==
    /\ AtStep(t, "rlock")
    /\ \A u \in Tasks : tasks[u].lock # "write"
    /\ tasks' = [tasks EXCEPT ![t] = [Proceeds(@, "Ok") EXCEPT !.lock = "read"]]
    /\ UNCHANGED <<now, active, deleted, wal_file, wal_buf, engine, collections, indexes,
                   last, restarts, acked, durable, tomb, purged, held, readVars, moreVars, mtime>>

\* self.collections.write(): granted while no caller holds any guard
LockWrite(t) ==
    /\ AtStep(t, "wlock")
    /\ \A u \in Tasks : tasks[u].lock = "none"
    /\ tasks' = [tasks EXCEPT ![t] = [Proceeds(@, "Ok") EXCEPT !.lock = "write"]]
    /\ UNCHANGED <<now, active, deleted, wal_file, wal_buf, engine, collections, indexes,
                   last, restarts, acked, durable, tomb, purged, held, readVars, moreVars, mtime>>

\* the guard goes out of scope
Unlock(t) ==
    /\ AtStep(t, "unlock")
    /\ tasks' = [tasks EXCEPT ![t] = [Proceeds(@, "Ok") EXCEPT !.lock = "none"]]
    /\ UNCHANGED <<now, active, deleted, wal_file, wal_buf, engine, collections, indexes,
                   last, restarts, acked, durable, tomb, purged, held, readVars, moreVars, mtime>>

\* what an operation reads from the map: contains_key, get(..).clone(), or
\* values().cloned().collect()
MapLook(t) ==
    /\ tasks[t].pc = "run"
    /\ Head(tasks[t].todo) \in {"absent", "present", "clone", "clone_all"}
    /\ LET n == tasks[t].config.name
           step == Head(tasks[t].todo) IN
       tasks' = [tasks EXCEPT ![t] =
                    CASE step = "absent" ->
                            IF n \in DOMAIN collections
                            THEN Returns(@, "CollectionAlreadyExists")
                            ELSE Proceeds(@, "Ok")
                      [] step = "clone_all" ->
                            [Proceeds(@, "Ok") EXCEPT !.storage =
                                IF NameA \in DOMAIN collections
                                THEN <<collections[NameA]>> ELSE <<>>]
                      [] step = "present" ->
                            IF n \in DOMAIN collections
                            THEN Proceeds(@, "Ok")
                            ELSE Returns(@, "CollectionNotFound")
                      [] step = "clone" ->
                            IF n \in DOMAIN collections
                            THEN [Proceeds(@, "Ok") EXCEPT !.storage = <<collections[n]>>]
                            ELSE Returns(@, "CollectionNotFound")]
    /\ UNCHANGED <<now, active, deleted, wal_file, wal_buf, engine, collections, indexes,
                   last, restarts, acked, durable, tomb, purged, held, readVars, moreVars, mtime>>

\* self.collections.write().insert(name, storage) / .remove(name)
MapWrite(t) ==
    /\ tasks[t].pc = "run"
    /\ Head(tasks[t].todo) \in {"put", "remove"}
    /\ collections' =
          IF Head(tasks[t].todo) = "put"
          THEN Put(collections, tasks[t].config.name,
                   Handle(tasks[t].config, ActiveLoc(tasks[t].config.name)))
          ELSE Drop(collections, tasks[t].config.name)
    /\ tasks' = [tasks EXCEPT ![t] = Proceeds(@, "Ok")]
    /\ UNCHANGED <<now, active, deleted, wal_file, wal_buf, engine, indexes,
                   last, restarts, acked, durable, tomb, purged, held, readVars, moreVars, mtime>>

\* CollectionStorage::new(collection_dir, config).await
AwaitNew(t) ==
    /\ AtStep(t, "new")
    /\ active' = StorageNew(active, tasks[t].config)
    /\ tasks' = [tasks EXCEPT ![t] = Proceeds(@, "Ok")]
    /\ UNCHANGED <<now, deleted, wal_file, wal_buf, engine, collections, indexes,
                   last, restarts, acked, durable, tomb, purged, held, readVars, moreVars>>
    /\ mtime' = DirTimes(mtime, active', deleted', now)

\* self.wal.append(&op).await
AwaitWal(t) ==
    /\ AtStep(t, "wal")
    /\ wal_buf' = WalAppend(wal_buf, EngineOp(t))
    /\ tasks' = [tasks EXCEPT ![t] = Proceeds(@, "Ok")]
    /\ UNCHANGED <<now, active, deleted, wal_file, engine, collections, indexes,
                   last, restarts, acked, durable, tomb, purged, held, readVars, moreVars, mtime>>

\* storage.insert(vector).await / storage.batch_insert(vectors).await on the clone
AwaitFile(t) ==
    /\ AtStep(t, "file")
    /\ IF StorageAccepts(tasks[t].storage[1], tasks[t].vecs)
       THEN /\ active' = AppendActive(active, tasks[t].storage[1], tasks[t].vecs)
            /\ deleted' = AppendDeleted(deleted, tasks[t].storage[1], tasks[t].vecs)
            /\ tasks' = [tasks EXCEPT ![t] = Proceeds(@, "Ok")]
       ELSE /\ tasks' = [tasks EXCEPT ![t] = Returns(@, "InvalidDimension")]
            /\ UNCHANGED <<active, deleted>>
    /\ UNCHANGED <<now, wal_file, wal_buf, engine, collections, indexes,
                   last, restarts, acked, durable, tomb, purged, held, readVars, moreVars, mtime>>

\* self.wal.sync().await
AwaitFlush(t) ==
    /\ AtStep(t, "flush")
    /\ wal_file' = WalFlushed(wal_file, wal_buf)
    /\ wal_buf' = <<>>
    /\ tasks' = [tasks EXCEPT ![t] = Proceeds(@, "Ok")]
    /\ UNCHANGED <<now, active, deleted, engine, collections, indexes,
                   last, restarts, acked, durable, tomb, purged, held, readVars, moreVars, mtime>>

\* the awaits on a cloned handle that change no file: storage.get(id) (None),
\* storage.delete(id) (false), storage.sync(), storage.iter_vectors()
AwaitStorage(t) ==
    /\ tasks[t].pc = "run"
    /\ Head(tasks[t].todo) \in {"get", "delete", "sync_files", "iter"}
    /\ tasks' = [tasks EXCEPT ![t] =
                    Proceeds(@, CASE Head(tasks[t].todo) = "get" -> "None"
                                  [] Head(tasks[t].todo) = "delete" -> "false"
                                  [] OTHER -> "Ok")]
    /\ UNCHANGED <<now, active, deleted, wal_file, wal_buf, engine, collections, indexes,
                   last, restarts, acked, durable, tomb, purged, held, readVars, moreVars, mtime>>

\* std::fs::remove_dir_all(collection_dir) when the directory exists
RemoveDir(t) ==
    /\ AtStep(t, "rmdir")
    /\ active' = Drop(active, tasks[t].config.name)
    /\ tasks' = [tasks EXCEPT ![t] = Proceeds(@, "Ok")]
    /\ UNCHANGED <<now, deleted, wal_file, wal_buf, engine, collections, indexes,
                   last, restarts, acked, durable, tomb, purged, held, readVars, moreVars>>
    /\ mtime' = DirTimes(mtime, active', deleted', now)

EngineOps ==
    {"create_collection", "delete_collection", "insert_vector", "batch_insert",
     "get_vector", "delete_vector", "sync", "get_all_vectors"}

\* the arguments of a call of op
EngineVecs(op) ==
    CASE op = "insert_vector" -> <<Vec(1, 1)>>
      [] op = "batch_insert" -> <<Vec(1, 1), Vec(2, 1)>>
      [] OTHER -> <<>>

NextLocks ==
    \/ WalLen < MaxWal /\ \E t \in Tasks, op \in EngineOps :
                              EngineCall(t, op, Config(NameA, 1), EngineVecs(op), 1)
    \/ \E t \in Tasks : LockRead(t)
    \/ \E t \in Tasks : LockWrite(t)
    \/ \E t \in Tasks : Unlock(t)
    \/ \E t \in Tasks : MapLook(t)
    \/ \E t \in Tasks : MapWrite(t)
    \/ \E t \in Tasks : AwaitNew(t)
    \/ \E t \in Tasks : AwaitWal(t)
    \/ \E t \in Tasks : AwaitFile(t)
    \/ \E t \in Tasks : AwaitFlush(t)
    \/ \E t \in Tasks : AwaitStorage(t)
    \/ \E t \in Tasks : RemoveDir(t)

SpecLocks == Init /\ [][NextLocks]_vars

(***************************************************************************)
(* Two kills and reopens in a row: the WAL is never truncated, so the      *)
(* second reopen replays the same file over what the first one left.       *)
(***************************************************************************)
MaxReplays == 2

RestartAgain ==
    /\ restarts < MaxReplays
    /\ restarts' = restarts + 1
    /\ Reopen

NextReplay ==
    \/ WalLen < MaxWal /\ \E d \in Dims : CreateCollection(Config(NameA, d))
    \/ WalLen < MaxWal /\ HardDeleteCollection(NameA)
    \/ SoftDeleteCollection(NameA)
    \/ WalLen < MaxWal /\ \E v \in Vectors : Insert(NameA, v)
    \/ Sync
    \/ RestartAgain

SpecReplay == Init /\ [][NextReplay]_vars

(***************************************************************************)
(* The vector operations of the facade on one collection, within one       *)
(* process lifetime: insert, batch_insert, update, delete and get.         *)
(***************************************************************************)
VectorIds == {1, 2}
OneDim == {Vec(i, 1) : i \in VectorIds}

NextVectors ==
    \/ CreateCollection(Config(NameA, 1))
    \/ WalLen < MaxWal /\ \E v \in OneDim : Insert(NameA, v)
    \/ WalLen < MaxWal /\ \E vs \in Batches : BatchInsert(NameA, vs)
    \/ WalLen + 1 < MaxWal /\ \E v \in OneDim \cup Vectors : Update(NameA, v)
    \/ WalLen < MaxWal /\ \E i \in VectorIds : Delete(NameA, i)
    \/ \E i \in VectorIds : Get(NameA, i)

SpecVectors == Init /\ [][NextVectors]_vars

(***************************************************************************)
(* An update and what is left of it after a sync, a kill and a reopen.     *)
(* The vector is inserted with its old data before any update is logged;   *)
(* the new data reaches the collection only through update.                *)
(***************************************************************************)
OldVec == [id |-> 1, data |-> <<0>>, metadata |-> <<>>]
NewVec == [id |-> 1, data |-> <<1>>, metadata |-> <<>>]

NextUpdate ==
    \/ CreateCollection(Config(NameA, 1))
    \/ /\ {OpInsert(NameA, OldVec), OpInsert(NameA, NewVec)}
             \cap SeqToSet(wal_file \o wal_buf) = {}
       /\ Insert(NameA, OldVec)
    \/ WalLen + 1 < MaxWal /\ Update(NameA, NewVec)
    \/ Get(NameA, 1)
    \/ Sync
    \/ Restart

SpecUpdate == Init /\ [][NextUpdate]_vars

(***************************************************************************)
(* Snapshots (storage/src/snapshot.rs and the snapshot calls of the        *)
(* facade).  A snapshot is a directory <data>/snapshots/<name> that holds   *)
(* copies of the collection's files and snapshot.json.  `made` is history:  *)
(* the files as create_snapshot copied them.                                *)
(***************************************************************************)
NameC == <<"c">>
HashRange == 8      \* the values the model's hasher can return
MaxTampered == 1    \* snapshots with an overwritten file at a time
MaxSnapshotVectors == 2   \* records in the vectors file of a snapshotted collection

\* SystemTime::now().duration_since(UNIX_EPOCH).as_secs(), formatted
UnixSecs(t) == <<"s0", "s1", "s2", "s3">>[t + 1]

\* format!("{}_{}", collection_name, timestamp)
SnapshotName(n, t) == Append(n, UnixSecs(t))

\* the files create_snapshot looks for, in the order read_dir yields them
FileOrder == <<"vectors.bin", "metadata.json">>

\* the files of the collection directory <data>/n
CollectionFiles(act, n) ==
    IF n \in DOMAIN act
    THEN [f \in SeqToSet(FileOrder) |->
            IF f = "vectors.bin" THEN act[n].vec ELSE act[n].meta]
    ELSE EmptyMap

\* fs::copy of every file of src into a directory that holds dst
CopyInto(dst, src) ==
    [f \in DOMAIN dst \cup DOMAIN src |-> IF f \in DOMAIN src THEN src[f] ELSE dst[f]]

\* the bytes of a file: of vectors.bin the records one after the other, each
\* with its id, the length of its data and the data; of metadata.json the
\* length of the name and the dimension
RECURSIVE VecBytes(_)
VecBytes(vs) ==
    IF vs = <<>> THEN <<>>
    ELSE <<Head(vs).id, Len(Head(vs).data)>> \o Head(vs).data \o VecBytes(Tail(vs))

FileBytes(f, c) == IF f = "vectors.bin" THEN VecBytes(c) ELSE <<Len(c.name), c.dimension>>

\* Hasher::write: the state after the bytes were fed to it
RECURSIVE HashWrite(_, _)
HashWrite(h, bytes) ==
    IF bytes = <<>> THEN h
    ELSE HashWrite((h * 3 + Head(bytes) + 1) % HashRange, Tail(bytes))

\* contents.hash(&mut hasher) of a Vec<u8>: the length, then the bytes
HashContents(h, bytes) == HashWrite(HashWrite(h, <<Len(bytes)>>), bytes)

RECURSIVE HashFiles(_, _, _)
HashFiles(h, files, order) ==
    IF order = <<>> THEN h
    ELSE HashFiles(IF Head(order) \in DOMAIN files
                   THEN HashContents(h, FileBytes(Head(order), files[Head(order)]))
                   ELSE h,
                   files, Tail(order))

\* SnapshotManager::calculate_checksum: one DefaultHasher over the contents of
\* every file of the directory except snapshot.json; file names are not hashed
CalculateChecksum(files) == HashFiles(0, files, FileOrder)

\* restore_snapshot's comparison of the recomputed checksum with the stored one
ChecksumNeverCompared(files, sum) == TRUE
ChecksumMatches(files, sum) == CalculateChecksum(files) = sum

\* VectorStore::create_snapshot -> SnapshotManager::create_snapshot
CreateSnapshot(n) ==
    /\ engine = "up"
    /\ IF n \notin DOMAIN collections
       THEN /\ last' = Called("create_snapshot", n, <<>>, 0, "CollectionNotFound", NoName)
            /\ UNCHANGED snapshots
       ELSE LET s == SnapshotName(n, now)
                files == CopyInto(IF s \in DOMAIN snapshots THEN snapshots[s].files
                                  ELSE EmptyMap,
                                  CollectionFiles(active, n))
                meta == [name |-> s, collection |-> n, created_at |-> now,
                         vector_count |-> 0, checksum |-> CalculateChecksum(files)]
            IN /\ snapshots' = Put(snapshots, s,
                                   [meta |-> meta, files |-> files, made |-> files])
               /\ last' = Called("create_snapshot", n, <<>>, 0, "Ok", s)
    /\ UNCHANGED <<now, active, deleted, wal_file, wal_buf, engine, collections, indexes,
                   restarts, acked, durable, tomb, purged, held, tasks, readVars,
                   wal_bytes, framed, hits, cursor, graph, mtime>>

\* VectorStore::list_snapshots -> SnapshotManager::list_snapshots: the parsed
\* snapshot.json of every directory, newest first; the sort is stable and the
\* order of read_dir is any, so snapshots of one second come in any order
ListSnapshotsOldestFirst ==
    {l \in [1..Cardinality(DOMAIN snapshots) -> DOMAIN snapshots] :
        /\ \A i, j \in DOMAIN l : i # j => l[i] # l[j]
        /\ \A i, j \in DOMAIN l :
              i < j => snapshots[l[i]].meta.created_at <= snapshots[l[j]].meta.created_at}
ListSnapshots ==
    {l \in [1..Cardinality(DOMAIN snapshots) -> DOMAIN snapshots] :
        /\ \A i, j \in DOMAIN l : i # j => l[i] # l[j]
        /\ \A i, j \in DOMAIN l :
              i < j => snapshots[l[i]].meta.created_at >= snapshots[l[j]].meta.created_at}

\* VectorStore::get_snapshot -> SnapshotManager::get_snapshot: <<>> for NotFound
GetSnapshot(s) == IF s \in DOMAIN snapshots THEN <<snapshots[s].meta>> ELSE <<>>

\* VectorStore::delete_snapshot -> SnapshotManager::delete_snapshot
DeleteSnapshot(s) ==
    /\ engine = "up"
    /\ IF s \notin DOMAIN snapshots
       THEN /\ last' = Called("delete_snapshot", s, <<>>, 0, "NotFound", NoName)
            /\ UNCHANGED snapshots
       ELSE /\ snapshots' = Drop(snapshots, s)
            /\ last' = Called("delete_snapshot", s, <<>>, 0, "Ok", NoName)
    /\ UNCHANGED <<now, active, deleted, wal_file, wal_buf, engine, collections, indexes,
                   restarts, acked, durable, tomb, purged, held, tasks, readVars,
                   wal_bytes, framed, hits, cursor, graph, mtime>>

\* the contents a file of a snapshot can be overwritten with from outside
OtherContents(f) ==
    IF f = "vectors.bin"
    THEN {<<>>, <<Vec(1, 1)>>, <<Vec(2, 1)>>, <<Vec(2, 1), Vec(1, 1)>>}
    ELSE {Config(NameA, 2)}

\* the snapshots that hold a file that is not as create_snapshot copied it
Tampered == {s \in DOMAIN snapshots : snapshots[s].files # snapshots[s].made}

\* a file of a snapshot is overwritten behind the program's back
Tamper(s, f, c) ==
    /\ s \in DOMAIN snapshots
    /\ f \in DOMAIN snapshots[s].files
    /\ c # snapshots[s].files[f]
    /\ snapshots' = [snapshots EXCEPT ![s].files[f] = c]
    /\ UNCHANGED <<now, active, deleted, wal_file, wal_buf, engine, collections, indexes,
                   last, restarts, acked, durable, tomb, purged, held, tasks, readVars,
                   wal_bytes, framed, hits, cursor, graph, mtime>>

\* the collection directory after SnapshotManager::restore_snapshot copied the
\* files of a snapshot into it (create_dir_all, then fs::copy of each file); a
\* directory that received no metadata.json is no collection directory
RestoredDir(act, n, files) ==
    LET dir == CopyInto(CollectionFiles(act, n), files)
    IN IF DOMAIN dir = SeqToSet(FileOrder)
       THEN Put(act, n, [meta |-> dir["metadata.json"], vec |-> dir["vectors.bin"]])
       ELSE act

\* VectorStore::restore_snapshot(snapshot_name, target): target is <<>> for
\* None and <<name>> for Some(name).  The manager recomputes the checksum
\* before it creates the target directory; the facade then builds an index
\* only if the storage engine has a collection of that name
RestoreSnapshot(s, target) ==
    /\ engine = "up"
    /\ IF s \notin DOMAIN snapshots
       THEN /\ last' = Called("restore_snapshot", s, <<>>, 0, "NotFound", NoName)
            /\ UNCHANGED <<active, indexes>>
       ELSE LET snap == snapshots[s]
                n == IF target = <<>> THEN snap.meta.collection ELSE target[1]
            IN IF ~ChecksumMatches(snap.files, snap.meta.checksum)
               THEN /\ last' = Called("restore_snapshot", s, <<>>, 0, "Corruption", NoName)
                    /\ UNCHANGED <<active, indexes>>
               ELSE /\ active' = RestoredDir(active, n, snap.files)
                    /\ indexes' =
                         IF n \in DOMAIN collections
                         THEN Put(indexes, n,
                                  IndexBatchInsert(
                                      NewIndex(collections[n].config.dimension),
                                      FileOf(active', deleted, collections[n])))
                         ELSE indexes
                    /\ last' = Called("restore_snapshot", s, <<>>, 0, "Ok", n)
    /\ UNCHANGED <<now, deleted, wal_file, wal_buf, engine, collections, restarts,
                   acked, durable, tomb, purged, held, tasks, readVars, moreVars>>
    /\ mtime' = DirTimes(mtime, active', deleted', now)

\* SnapshotManager::cleanup_old_snapshots(keep_count): of the newest-first
\* listing, everything after the first keep_count entries is deleted
CleanupOldSnapshots(keep) ==
    /\ engine = "up"
    /\ \E l \in ListSnapshots :
          IF Len(l) <= keep
          THEN /\ last' = Called("cleanup_old_snapshots", NoName, <<>>, keep, "Ok", <<0>>)
               /\ UNCHANGED snapshots
          ELSE /\ snapshots' = [x \in {l[i] : i \in 1..keep} |-> snapshots[x]]
               /\ last' = Called("cleanup_old_snapshots", NoName, <<>>, keep, "Ok",
                                 <<Len(l) - keep>>)
    /\ UNCHANGED <<now, active, deleted, wal_file, wal_buf, engine, collections, indexes,
                   restarts, acked, durable, tomb, purged, held, tasks, readVars,
                   wal_bytes, framed, hits, cursor, graph, mtime>>

NextSnapshots ==
    \/ Tick
    \/ WalLen < MaxWal /\ CreateCollection(Config(NameA, 1))
    \/ /\ WalLen < MaxWal
       /\ NameA \in DOMAIN active
       /\ Len(active[NameA].vec) < MaxSnapshotVectors
       /\ \E v \in OneDim : Insert(NameA, v)
    \/ \E n \in {NameA, NameAB} : CreateSnapshot(n)
    \/ \E s \in DOMAIN snapshots \cup {SnapshotName(NameA, 0)} : DeleteSnapshot(s)
    \/ /\ Cardinality(Tampered) < MaxTampered
       /\ \E s \in DOMAIN snapshots : \E f \in SeqToSet(FileOrder) :
             \E c \in OtherContents(f) : Tamper(s, f, c)
    \/ \E s \in DOMAIN snapshots : \E target \in {<<>>, <<NameC>>} : RestoreSnapshot(s, target)
    \/ \E keep \in 0..2 : CleanupOldSnapshots(keep)

SpecSnapshots == Init /\ [][NextSnapshots]_vars

(***************************************************************************)
(* WriteAheadLog::read_all over the bytes of the file.  A frame is the     *)
(* four magic bytes, the four bytes of the length (both little-endian) and *)
(* the serialized entry; the length of a serialized entry depends on its   *)
(* operation, as it does with bincode.  An entry of the model is its       *)
(* checksum byte, its operation byte and one zero byte less than the       *)
(* operation's number.                                                     *)
(***************************************************************************)
MaxBytes == 36   \* bytes in the WAL file

\* WAL_ENTRY_MAGIC.to_le_bytes(): EF BE AD DE
MagicBytes == <<239, 190, 173, 222>>

ByteOps == {1, 2, 3}

\* bincode::serialize(&entry): 2, 3 or 4 bytes
Serialized(w) == <<Checksum(w), w>> \o [k \in 1..(w - 1) |-> 0]

\* length.to_le_bytes() of a length below 256
LengthBytes(len) == <<len, 0, 0, 0>>

\* append's frame: [MAGIC 4 bytes][LENGTH 4 bytes][DATA]
FrameBytes(w) == MagicBytes \o LengthBytes(Len(Serialized(w))) \o Serialized(w)

\* u32::from_le_bytes(length_bytes) > 100 * 1024 * 1024; a top byte over 6
\* alone makes the length at least 7 * 2^24, which is over the limit
TooLargeBytes(b) ==
    \/ b[4] > 6
    \/ b[1] + 256 * b[2] + 65536 * b[3] + 16777216 * b[4] > MaxEntryBytes

\* u32::from_le_bytes(length_bytes) of a length that is not too large
LengthOf(b) == b[1] + 256 * b[2] + 65536 * b[3] + 16777216 * b[4]

\* bincode::deserialize::<WALEntry>(&entry_data) succeeds
DeserializesBytes(data) ==
    /\ Len(data) >= 2
    /\ data[2] \in ByteOps
    /\ Len(data) = 1 + data[2]
    /\ \A k \in 3..Len(data) : data[k] = 0

\* where the loop of read_all reads next after a length that is too large:
\* `continue` leaves the reader behind the eight bytes of magic and length
AfterTooLarge(pos, b) == pos + 8

\* the loop of read_all from byte position pos, with the operations read so
\* far; every read_exact takes the bytes that follow the last read
RECURSIVE ReadBytesFrom(_, _, _)
ReadBytesFrom(f, pos, ops) ==
    IF pos + 3 > Len(f) THEN ops
    ELSE IF SubSeq(f, pos, pos + 3) # MagicBytes THEN ReadBytesFrom(f, pos + 4, ops)
    ELSE IF pos + 7 > Len(f) THEN ops
    ELSE LET b == SubSeq(f, pos + 4, pos + 7)
         IN IF TooLargeBytes(b) THEN ReadBytesFrom(f, AfterTooLarge(pos, b), ops)
            ELSE IF pos + 7 + LengthOf(b) > Len(f) THEN ops
            ELSE LET data == SubSeq(f, pos + 8, pos + 7 + LengthOf(b))
                     next == pos + 8 + LengthOf(b)
                 IN IF ~DeserializesBytes(data) THEN ReadBytesFrom(f, next, ops)
                    ELSE IF data[1] # Checksum(data[2]) THEN ReadBytesFrom(f, next, ops)
                    ELSE ReadBytesFrom(f, next, Append(ops, data[2]))

\* WriteAheadLog::read_all, the buffer already flushed
ReadAllBytes(f) == ReadBytesFrom(f, 1, <<>>)

\* length fields over 100 MiB: 7 * 2^24 and 2^31 + 1
OversizedLengths == {<<0, 0, 0, 7>>, <<1, 0, 0, 128>>}

\* append and flush: the frame of operation w reaches the file whole
WriteFrameBytes(w) ==
    /\ Len(wal_bytes) + Len(FrameBytes(w)) <= MaxBytes
    /\ wal_bytes' = wal_bytes \o FrameBytes(w)
    /\ framed' = Append(framed, [op |-> w, valid |-> TRUE])
    /\ read_ops' = [done |-> FALSE, ops |-> <<>>]
    /\ UNCHANGED <<now, active, deleted, wal_file, wal_buf, engine, collections, indexes,
                   last, restarts, acked, durable, tomb, purged, held, tasks,
                   wal_words, valid_prefix, snapshots, hits, cursor, graph, mtime>>

\* the frame of operation w is in the file with a length field over 100 MiB
WriteOversizedFrame(w, b) ==
    /\ Len(wal_bytes) + Len(FrameBytes(w)) <= MaxBytes
    /\ wal_bytes' = wal_bytes \o MagicBytes \o b \o Serialized(w)
    /\ framed' = Append(framed, [op |-> w, valid |-> FALSE])
    /\ read_ops' = [done |-> FALSE, ops |-> <<>>]
    /\ UNCHANGED <<now, active, deleted, wal_file, wal_buf, engine, collections, indexes,
                   last, restarts, acked, durable, tomb, purged, held, tasks,
                   wal_words, valid_prefix, snapshots, hits, cursor, graph, mtime>>

DoReadAllBytes ==
    /\ ~read_ops.done
    /\ read_ops' = [done |-> TRUE, ops |-> ReadAllBytes(wal_bytes)]
    /\ UNCHANGED <<now, active, deleted, wal_file, wal_buf, engine, collections, indexes,
                   last, restarts, acked, durable, tomb, purged, held, tasks,
                   wal_words, valid_prefix, snapshots, wal_bytes, framed, hits, cursor, graph,
                   mtime>>

NextBytes ==
    \/ \E w \in ByteOps : WriteFrameBytes(w)
    \/ \E w \in ByteOps : \E b \in OversizedLengths : WriteOversizedFrame(w, b)
    \/ DoReadAllBytes

SpecBytes == Init /\ [][NextBytes]_vars

(***************************************************************************)
(* WriteAheadLog::append, sync and read_all called one after the other on  *)
(* a WAL that nothing else writes.  The buffer and the file hold frames;   *)
(* a frame is its operation and the length of its serialized entry.        *)
(***************************************************************************)
\* the entries handed to append: two of EntryBytes and one of one byte more
\* than the 100 MiB that read_all accepts (a batch of many vectors)
Entries ==
    {[op |-> 1, len |-> EntryBytes], [op |-> 2, len |-> EntryBytes],
     [op |-> 3, len |-> MaxEntryBytes + 1]}

\* buffer.len(): every frame is 4 bytes of magic, 4 of length, and the entry
RECURSIVE BufferLen(_)
BufferLen(buf) == IF buf = <<>> THEN 0 ELSE 8 + Head(buf).len + BufferLen(Tail(buf))

\* WriteAheadLog::append: the frame is pushed onto the buffer, and the buffer
\* is written out when it has grown over the threshold
AppendEntry(e) ==
    /\ Len(framed) < MaxWalEntries
    /\ framed' = Append(framed, e)
    /\ IF BufferLen(Append(wal_buf, e)) > FlushThreshold
       THEN /\ wal_file' = WalFlushed(wal_file, Append(wal_buf, e))
            /\ wal_buf' = <<>>
       ELSE /\ wal_buf' = Append(wal_buf, e)
            /\ UNCHANGED wal_file
    /\ read_ops' = [done |-> FALSE, ops |-> <<>>]
    /\ UNCHANGED <<now, active, deleted, engine, collections, indexes,
                   last, restarts, acked, durable, tomb, purged, held, tasks,
                   wal_words, valid_prefix, snapshots, wal_bytes, hits, cursor, graph, mtime>>

\* WriteAheadLog::sync -> flush_internal
SyncWal ==
    /\ wal_buf # <<>>
    /\ wal_file' = WalFlushed(wal_file, wal_buf)
    /\ wal_buf' = <<>>
    /\ UNCHANGED <<now, active, deleted, engine, collections, indexes,
                   last, restarts, acked, durable, tomb, purged, held, tasks,
                   readVars, moreVars, mtime>>

\* the loop of read_all over a file of whole frames, the reader standing at
\* the start of frame k.  A length over the limit makes the loop `continue`
\* behind the length field; it then reads on 4 bytes at a time (ReadBytesFrom)
\* through the entry, and stands at the start of frame k + 1 only if the
\* entry's length is a multiple of 4; if not, no later read begins at a frame
\* and the loop ends at the end of the file
RECURSIVE ReadFramesFrom(_, _, _)
ReadFramesFrom(frames, k, ops) ==
    IF k > Len(frames) THEN ops
    ELSE IF frames[k].len > MaxEntryBytes
         THEN IF frames[k].len % WordBytes = 0
              THEN ReadFramesFrom(frames, k + 1, ops)
              ELSE ops
         ELSE ReadFramesFrom(frames, k + 1, Append(ops, frames[k].op))

\* WriteAheadLog::read_all: flush_internal, then the loop over the file
ReadAllCall ==
    /\ ~read_ops.done
    /\ wal_file' = WalFlushed(wal_file, wal_buf)
    /\ wal_buf' = <<>>
    /\ read_ops' = [done |-> TRUE, ops |-> ReadFramesFrom(wal_file', 1, <<>>)]
    /\ UNCHANGED <<now, active, deleted, engine, collections, indexes,
                   last, restarts, acked, durable, tomb, purged, held, tasks,
                   wal_words, valid_prefix, moreVars, mtime>>

NextAppend ==
    \/ \E e \in Entries : AppendEntry(e)
    \/ SyncWal
    \/ ReadAllCall

SpecAppend == Init /\ [][NextAppend]_vars

(***************************************************************************)
(* VectorStore::query with a payload filter.  The vectors have one         *)
(* coordinate and carry a colour as metadata, or none; the distance is the *)
(* squared Euclidean distance, which orders the points as the Euclidean    *)
(* distance does.                                                          *)
(***************************************************************************)
MaxLimit == 2   \* the limit of a query

\* the vectors inserted: id 1 with metadata and, at another place, without
TaggedVectors ==
    {[id |-> 1, data |-> <<0>>, metadata |-> <<"red">>],
     [id |-> 1, data |-> <<1>>, metadata |-> <<>>],
     [id |-> 2, data |-> <<2>>, metadata |-> <<"red">>],
     [id |-> 3, data |-> <<3>>, metadata |-> <<"blue">>]}

TaggedBatches ==
    {<<[id |-> 4, data |-> <<0>>, metadata |-> <<"blue">>],
       [id |-> 5, data |-> <<1>>, metadata |-> <<"blue">>]>>}

\* Filter::Must([colour = c]) and Filter::MustNot([colour = c])
Filters == {[kind |-> "must", value |-> "red"], [kind |-> "must_not", value |-> "red"]}

\* filter::evaluate_filter: no metadata satisfies no filter
EvaluateFilter(filter, metadata) ==
    IF metadata = <<>> THEN FALSE
    ELSE IF filter.kind = "must" THEN metadata[1] = filter.value
    ELSE metadata[1] # filter.value

RECURSIVE Distance(_, _)
Distance(q, d) ==
    IF q = <<>> THEN 0
    ELSE (Head(q) - Head(d)) * (Head(q) - Head(d)) + Distance(Tail(q), Tail(d))

\* hnsw.search(query, k, ef): the k points nearest to the query, nearest
\* first; points at equal distance come in any order
Neighbours(ix, q, k) ==
    LET m == IF k < Cardinality(ix.points) THEN k ELSE Cardinality(ix.points)
    IN {s \in [1..m -> ix.points] :
          /\ \A i, j \in 1..m : i < j => s[i] # s[j]
          /\ \A i, j \in 1..m : i < j => Distance(q, s[i].data) <= Distance(q, s[j].data)
          /\ \A p \in ix.points :
                (\A i \in 1..m : s[i] # p) =>
                    \A i \in 1..m : Distance(q, s[i].data) <= Distance(q, p.data)}

\* HnswRsIndex::search, after hnsw.search returned nb: the neighbours whose
\* internal index maps to an id, each with the metadata the map holds for the id
RECURSIVE SearchResults(_, _, _)
SearchResults(ix, q, nb) ==
    IF nb = <<>> THEN <<>>
    ELSE IF Head(nb).idx \in DOMAIN ix.idx_to_id
         THEN LET id == ix.idx_to_id[Head(nb).idx]
              IN <<[id |-> id, distance |-> Distance(q, Head(nb).data),
                    metadata |-> IF id \in DOMAIN ix.metadata
                                 THEN <<ix.metadata[id]>> ELSE <<>>]>>
                 \o SearchResults(ix, q, Tail(nb))
         ELSE SearchResults(ix, q, Tail(nb))

\* .into_iter().filter(|r| evaluate_filter(filter, &r.metadata))
RECURSIVE Filtered(_, _)
Filtered(filter, rs) ==
    IF rs = <<>> THEN <<>>
    ELSE IF EvaluateFilter(filter, Head(rs).metadata)
         THEN <<Head(rs)>> \o Filtered(filter, Tail(rs))
         ELSE Filtered(filter, Tail(rs))

\* .take(limit)
Take(rs, limit) == SubSeq(rs, 1, IF limit < Len(rs) THEN limit ELSE Len(rs))

\* the candidate pool of a filtered query
SearchLimit(limit) == limit * 3

\* VectorStore::query(collection n, vector q, limit, filter): filter is <<>>
\* for None and <<f>> for Some(f)
Query(n, q, limit, filter) ==
    /\ engine = "up"
    /\ IF n \notin DOMAIN collections
       THEN hits' = [NoHits EXCEPT !.res = "CollectionNotFound"]
       ELSE IF Len(q) # collections[n].config.dimension
       THEN hits' = [NoHits EXCEPT !.res = "InvalidDimension"]
       ELSE IF n \notin DOMAIN indexes
       THEN hits' = [NoHits EXCEPT !.res = "CollectionNotFound"]
       ELSE \E nb \in Neighbours(indexes[n], q,
                                 IF filter # <<>> THEN SearchLimit(limit) ELSE limit) :
               LET found == SearchResults(indexes[n], q, nb)
               IN hits' = [res |-> "Ok", coll |-> n, query |-> q, limit |-> limit,
                           filter |-> filter, candidates |-> found,
                           results |-> IF filter # <<>>
                                       THEN Take(Filtered(filter[1], found), limit)
                                       ELSE Take(found, limit)]
    /\ UNCHANGED <<now, active, deleted, wal_file, wal_buf, engine, collections, indexes,
                   last, restarts, acked, durable, tomb, purged, held, tasks, readVars,
                   snapshots, wal_bytes, framed, cursor, graph, mtime>>

NextQuery ==
    \/ CreateCollection(Config(NameA, 1))
    \/ WalLen < MaxWal /\ \E v \in TaggedVectors : Insert(NameA, v)
    \/ WalLen < MaxWal /\ \E vs \in TaggedBatches : BatchInsert(NameA, vs)
    \/ WalLen < MaxWal /\ \E i \in {1} : Delete(NameA, i)
    \/ \E q \in {<<1>>, <<3>>} : \E limit \in 1..MaxLimit :
          \E filter \in {<<>>} \cup {<<f>> : f \in Filters} : Query(NameA, q, limit, filter)

SpecQuery == Init /\ [][NextQuery]_vars

(***************************************************************************)
(* VectorStore::scroll, called in a loop by a client: the first request    *)
(* has no offset, every further one the next_offset of the response        *)
(* before, until a response has none.  The collection is not written       *)
(* while the loop runs.                                                    *)
(***************************************************************************)
DecimalDigits == <<"0", "1", "2", "3", "4", "5", "6", "7", "8", "9">>

\* usize::to_string
RECURSIVE UsizeToString(_)
UsizeToString(n) ==
    IF n < 10 THEN <<DecimalDigits[n + 1]>>
    ELSE Append(UsizeToString(n \div 10), DecimalDigits[(n % 10) + 1])

DigitValue(c) == CHOOSE d \in 0..9 : DecimalDigits[d + 1] = c

\* str::parse::<usize>().ok(): <<>> for a string that is no number
RECURSIVE ParseFrom(_, _)
ParseFrom(s, acc) ==
    IF s = <<>> THEN <<acc>>
    ELSE IF Head(s) \notin SeqToSet(DecimalDigits) THEN <<>>
    ELSE ParseFrom(Tail(s), 10 * acc + DigitValue(Head(s)))

Parse(s) == IF s = <<>> THEN <<>> ELSE ParseFrom(s, 0)

\* .filter(|v| evaluate_filter(filter, &v.metadata)) on the vectors of the file
RECURSIVE FilteredVectors(_, _)
FilteredVectors(filter, vs) ==
    IF vs = <<>> THEN <<>>
    ELSE IF filter = <<>> \/ EvaluateFilter(filter[1], Head(vs).metadata)
         THEN <<Head(vs)>> \o FilteredVectors(filter, Tail(vs))
         ELSE FilteredVectors(filter, Tail(vs))

\* .skip(offset).take(limit)
Page(vs, offset, limit) ==
    SubSeq(vs, offset + 1, IF offset + limit < Len(vs) THEN offset + limit ELSE Len(vs))

\* next_offset of a response: Some(end.to_string()) if end < total
NextOffset(end, total) == IF end < total THEN <<UsizeToString(end)>> ELSE <<>>

\* VectorStore::scroll(collection n, limit, offset, filter): offset is <<>>
\* for None and <<s>> for Some(s)
Scroll(n, limit, offset, filter) ==
    IF n \notin DOMAIN collections
    THEN [res |-> "CollectionNotFound", points |-> <<>>, next_offset |-> <<>>]
    ELSE LET parsed == IF offset = <<>> THEN <<>> ELSE Parse(offset[1])
             from == IF parsed = <<>> THEN 0 ELSE parsed[1]
             vs == FilteredVectors(filter, GetAllVectors(n))
             total == Len(vs)
             end == IF from + limit < total THEN from + limit ELSE total
         IN [res |-> "Ok", points |-> Page(vs, from, limit),
             next_offset |-> NextOffset(end, total)]

\* the client begins a loop over collection n
ScrollStart(n, limit, filter) ==
    /\ engine = "up"
    /\ cursor.state = "idle"
    /\ n \in DOMAIN collections
    /\ cursor' = [state |-> "open", coll |-> n, limit |-> limit, filter |-> filter,
                  offset |-> <<>>, seen |-> <<>>]
    /\ UNCHANGED <<now, active, deleted, wal_file, wal_buf, engine, collections, indexes,
                   last, restarts, acked, durable, tomb, purged, held, tasks, readVars,
                   snapshots, wal_bytes, framed, hits, graph, mtime>>

\* one call of the loop: the points of the response are visited, and the loop
\* is over when the response has no next_offset
ScrollCall ==
    /\ cursor.state = "open"
    /\ LET r == Scroll(cursor.coll, cursor.limit, cursor.offset, cursor.filter)
       IN cursor' = [cursor EXCEPT !.seen = @ \o r.points,
                                   !.offset = r.next_offset,
                                   !.state = IF r.next_offset = <<>> THEN "done" ELSE "open"]
    /\ UNCHANGED <<now, active, deleted, wal_file, wal_buf, engine, collections, indexes,
                   last, restarts, acked, durable, tomb, purged, held, tasks, readVars,
                   snapshots, wal_bytes, framed, hits, graph, mtime>>

NextScroll ==
    \/ cursor.state = "idle" /\ CreateCollection(Config(NameA, 1))
    \/ /\ cursor.state = "idle"
       /\ WalLen < MaxWal
       /\ \E v \in TaggedVectors : Insert(NameA, v)
    \/ \E limit \in 0..MaxLimit : \E filter \in {<<>>} \cup {<<f>> : f \in Filters} :
          ScrollStart(NameA, limit, filter)
    \/ ScrollCall

\* the client goes on calling as long as the loop is open
SpecScroll == Init /\ [][NextScroll]_vars /\ WF_vars(ScrollCall)

(***************************************************************************)
(* RecoveryManager::cleanup_old_deleted.  The age of a soft-deleted        *)
(* collection is taken from the modification time of its directory under   *)
(* .deleted, as list_deleted_collections reads it.                         *)
(***************************************************************************)
SecondsPerHour == 3600

\* the second at which soft_delete_collection named the directory d
DeletedAt(d) == CHOOSE t \in 0..MaxTime : Timestamp(t)[2] = d[Len(d)]

\* now.saturating_sub(modified)
SaturatingSub(a, b) == IF a > b THEN a - b ELSE 0

\* list_deleted_collections: (name, modified) of every directory under .deleted
DeletedWithTimes == {<<d, mtime[DeletedLoc(d)]>> : d \in ListDeletedCollections}

\* the directories cleanup_old_deleted(hours) removes at time t
TooOld(hours, t) ==
    {e[1] : e \in {x \in DeletedWithTimes :
                      SaturatingSub(t, x[2]) > hours * SecondsPerHour}}

\* the orders in which read_dir can list a set of directories
Listings(S) == {s \in [1..Cardinality(S) -> S] : \A d \in S : \E k \in DOMAIN s : s[k] = d}

\* VectorStore::cleanup_old_deleted(hours) -> RecoveryManager::cleanup_old_deleted
CleanupOldDeleted(hours) ==
    /\ engine = "up"
    /\ deleted' = [d \in DOMAIN deleted \ TooOld(hours, now) |-> deleted[d]]
    /\ \E cleaned \in Listings(TooOld(hours, now)) :
          last' = Called("cleanup_old_deleted", NoName, <<>>, hours, "Ok", cleaned)
    /\ UNCHANGED <<now, active, wal_file, wal_buf, engine, collections, indexes, restarts,
                   acked, durable, tomb, purged, held, tasks, readVars, moreVars>>
    /\ mtime' = DirTimes(mtime, active', deleted', now)

RetentionHours == {0, 1}

NextCleanup ==
    \/ Tick
    \/ \E n \in {NameA, NameAB} : CreateCollection(Config(n, 1))
    \/ \E n \in {NameA, NameAB} : SoftDeleteCollection(n)
    \/ \E d \in DOMAIN deleted : RestoreCollection(d)
    \/ \E hours \in RetentionHours : CleanupOldDeleted(hours)

SpecCleanup == Init /\ [][NextCleanup]_vars

(***************************************************************************)
(* Queries after a kill and reopen: the WAL is replayed over the vectors   *)
(* files and every index is rebuilt from the file of its collection.       *)
(***************************************************************************)
\* the vectors written before the kill: id 1 at two places, id 2
ReplayedVectors ==
    {[id |-> 1, data |-> <<0>>, metadata |-> <<>>],
     [id |-> 1, data |-> <<1>>, metadata |-> <<>>],
     [id |-> 2, data |-> <<2>>, metadata |-> <<>>]}

\* the record of id i that was appended last to the file recs
RECURSIVE LatestRecord(_, _)
LatestRecord(recs, i) ==
    IF recs[Len(recs)].id = i THEN recs[Len(recs)]
    ELSE LatestRecord(SubSeq(recs, 1, Len(recs) - 1), i)

NextRebuilt ==
    \/ CreateCollection(Config(NameA, 1))
    \/ /\ restarts = 0
       /\ WalLen < MaxWal
       /\ \E v \in ReplayedVectors : Insert(NameA, v)
    \/ Sync
    \/ Restart
    \/ /\ restarts > 0
       /\ \E q \in {<<0>>, <<1>>} : \E limit \in 1..MaxLimit : Query(NameA, q, limit, <<>>)

SpecRebuilt == Init /\ [][NextRebuilt]_vars

(***************************************************************************)
(* HnswIndex (index/src/hnsw.rs): the nodes by id and the entry point.  A  *)
(* node is [id, vector, layer, connections], connections[l + 1] the        *)
(* ordered set of neighbour ids at layer l.  The layer of a new node is    *)
(* drawn at random, so it is an input of the insert.  Every id has one      *)
(* vector, and the vectors are chosen so that no two nodes are at the same *)
(* distance of a third: the heaps never have to order equal distances.     *)
(***************************************************************************)
HnswMaxConnections == 1   \* IndexConfig.max_connections
HnswEf == 2               \* IndexConfig.ef_construction and ef_search
HnswMaxLayer == 1         \* IndexConfig.max_layer
HnswDimension == 1        \* the dimension the index is made for

HnswIds == {1, 2, 3}
HnswVector(i) == [k \in 1..HnswDimension |-> <<0, 1, 3>>[i]]
HnswLayers == 0..HnswMaxLayer

Smaller(a, b) == IF a < b THEN a ELSE b
Larger(a, b) == IF a > b THEN a ELSE b

\* HnswNode::new(id, vector, metadata, layer): layer + 1 empty connection sets
HnswNodeNew(i, vector, layer) ==
    [id |-> i, vector |-> vector, layer |-> layer,
     connections |-> [l \in 1..(layer + 1) |-> <<>>]]

\* HnswNode::get_connections(layer)
GetConnections(node, layer) ==
    IF layer + 1 <= Len(node.connections) THEN node.connections[layer + 1] ELSE <<>>

\* HnswNode::add_connection(layer, neighbour)
AddConnection(node, layer, i) ==
    IF layer + 1 <= Len(node.connections) /\ i \notin SeqToSet(node.connections[layer + 1])
    THEN [node EXCEPT !.connections[layer + 1] = Append(@, i)]
    ELSE node

\* HnswNode::remove_connection(layer, neighbour)
RemoveConnection(node, layer, i) ==
    IF layer + 1 <= Len(node.connections)
    THEN [node EXCEPT !.connections[layer + 1] = SelectSeq(@, LAMBDA c : c # i)]
    ELSE node

\* HnswNode::connection_count(layer)
ConnectionCount(node, layer) == Len(GetConnections(node, layer))

\* BinaryHeap::peek / pop of the candidates (farthest) and of the dynamic
\* list (nearest)
Farthest(S) == CHOOSE c \in S : \A d \in S : d.distance <= c.distance
Nearest(S) == CHOOSE c \in S : \A d \in S : c.distance <= d.distance

\* search_layer, the entry points: each one that is a node is a candidate
RECURSIVE SearchStart(_, _, _, _)
SearchStart(nodes, q, entry_points, st) ==
    IF entry_points = <<>> THEN st
    ELSE LET e == Head(entry_points) IN
         IF e \in DOMAIN nodes
         THEN LET c == [id |-> e, distance |-> Distance(q, nodes[e].vector)] IN
              SearchStart(nodes, q, Tail(entry_points),
                          [candidates |-> st.candidates \cup {c},
                           dynamic_list |-> st.dynamic_list \cup {c},
                           visited |-> st.visited \cup {e}])
         ELSE SearchStart(nodes, q, Tail(entry_points), st)

\* search_layer, the neighbours of the current candidate, in their order
RECURSIVE Explore(_, _, _, _, _)
Explore(nodes, q, num_closest, neighbours, st) ==
    IF neighbours = <<>> THEN st
    ELSE LET n == Head(neighbours) IN
         IF n \in st.visited THEN Explore(nodes, q, num_closest, Tail(neighbours), st)
         ELSE IF n \notin DOMAIN nodes
         THEN Explore(nodes, q, num_closest, Tail(neighbours),
                      [st EXCEPT !.visited = @ \cup {n}])
         ELSE LET c == [id |-> n, distance |-> Distance(q, nodes[n].vector)]
                  should_add ==
                     IF Cardinality(st.candidates) < num_closest THEN TRUE
                     ELSE IF st.candidates # {}
                          THEN c.distance < Farthest(st.candidates).distance
                          ELSE FALSE
                  pushed == st.candidates \cup {c}
              IN Explore(nodes, q, num_closest, Tail(neighbours),
                    IF should_add
                    THEN [candidates |-> IF Cardinality(pushed) > num_closest
                                         THEN pushed \ {Farthest(pushed)} ELSE pushed,
                          dynamic_list |-> st.dynamic_list \cup {c},
                          visited |-> st.visited \cup {n}]
                    ELSE [st EXCEPT !.visited = @ \cup {n}])

\* search_layer, the loop over the dynamic list: the candidates it ends with
RECURSIVE SearchLoop(_, _, _, _, _)
SearchLoop(nodes, q, num_closest, layer, st) ==
    IF st.dynamic_list = {} THEN st.candidates
    ELSE LET current == Nearest(st.dynamic_list)
             popped == [st EXCEPT !.dynamic_list = @ \ {current}]
         IN IF /\ st.candidates # {}
               /\ current.distance > Farthest(st.candidates).distance
               /\ Cardinality(st.candidates) >= num_closest
            THEN st.candidates
            ELSE IF current.id \in DOMAIN nodes
            THEN SearchLoop(nodes, q, num_closest, layer,
                            Explore(nodes, q, num_closest,
                                    GetConnections(nodes[current.id], layer), popped))
            ELSE SearchLoop(nodes, q, num_closest, layer, popped)

\* into_sorted_vec, reverse: the nearest first
RECURSIVE NearestFirst(_)
NearestFirst(S) ==
    IF S = {} THEN <<>> ELSE <<Nearest(S)>> \o NearestFirst(S \ {Nearest(S)})

\* HnswIndex::search_layer(query, entry_points, num_closest, layer)
SearchLayer(nodes, q, entry_points, num_closest, layer) ==
    LET found == NearestFirst(
                    SearchLoop(nodes, q, num_closest, layer,
                               SearchStart(nodes, q, entry_points,
                                           [candidates |-> {}, dynamic_list |-> {},
                                            visited |-> {}])))
    IN SubSeq(found, 1, Smaller(num_closest, Len(found)))

CandidateIds(cs) == [k \in 1..Len(cs) |-> cs[k].id]

\* HnswIndex::select_neighbors: the m closest candidates
SelectNeighbors(cs, m) == CandidateIds(SubSeq(cs, 1, Smaller(m, Len(cs))))

\* HnswIndex::get_m_values
GetMValues(layer) ==
    IF layer = 0
    THEN [m |-> HnswMaxConnections, max_m |-> HnswMaxConnections * 2]
    ELSE [m |-> HnswMaxConnections, max_m |-> HnswMaxConnections]

\* connect_node and search: from layer `from` down to layer `to`, the
\* closest node of each layer is the entry point of the next
RECURSIVE Descend(_, _, _, _, _)
Descend(nodes, q, closest, from, to) ==
    IF from < to THEN closest
    ELSE Descend(nodes, q, CandidateIds(SearchLayer(nodes, q, closest, 1, from)),
                 from - 1, to)

\* connect_node, one selected neighbour at layer lc: the connection in both
\* directions, and the neighbour's connections pruned when they are too many
ConnectNeighbour(nodes, i, neighbour, lc) ==
    LET one == [nodes EXCEPT ![i] = AddConnection(@, lc, neighbour)]
        two == [one EXCEPT ![neighbour] = AddConnection(@, lc, i)]
    IN IF ConnectionCount(two[neighbour], lc) > GetMValues(lc).max_m
       THEN [two EXCEPT ![neighbour].connections[lc + 1] =
                SelectNeighbors(SearchLayer(two, two[neighbour].vector, <<i>>,
                                            GetMValues(lc).max_m + 1, lc),
                                GetMValues(lc).max_m)]
       ELSE two

RECURSIVE ConnectSelected(_, _, _, _)
ConnectSelected(nodes, i, selected, lc) ==
    IF selected = <<>> THEN nodes
    ELSE ConnectSelected(ConnectNeighbour(nodes, i, Head(selected), lc),
                         i, Tail(selected), lc)

\* connect_node, the layers from lc down to 0
RECURSIVE ConnectLayers(_, _, _, _)
ConnectLayers(nodes, i, closest, lc) ==
    LET ef == IF lc = 0 THEN Larger(HnswEf, HnswMaxConnections) ELSE HnswEf
        selected == SelectNeighbors(SearchLayer(nodes, nodes[i].vector, closest, ef, lc),
                                    GetMValues(lc).m)
        connected == ConnectSelected(nodes, i, selected, lc)
    IN IF lc = 0 THEN connected ELSE ConnectLayers(connected, i, selected, lc - 1)

\* HnswIndex::connect_node(id): the node is in the map already
ConnectNode(g, i) ==
    IF g.entry_point = <<>> THEN [g EXCEPT !.entry_point = <<i>>]
    ELSE LET layer == g.nodes[i].layer
             entry_id == g.entry_point[1]
             entry_layer == g.nodes[entry_id].layer
             closest == Descend(g.nodes, g.nodes[i].vector, <<entry_id>>,
                                entry_layer, layer + 1)
         IN [nodes |-> ConnectLayers(g.nodes, i, closest, layer),
             entry_point |-> IF layer > entry_layer THEN <<i>> ELSE g.entry_point]

\* batch_insert, phase 2: every prepared node is put into the map
RECURSIVE PutNodes(_, _)
PutNodes(nodes, items) ==
    IF items = <<>> THEN nodes
    ELSE PutNodes(Put(nodes, Head(items).id,
                      HnswNodeNew(Head(items).id, Head(items).vector, Head(items).layer)),
                  Tail(items))

\* batch_insert, phase 3: the nodes are connected in the order of the batch
RECURSIVE ConnectAll(_, _)
ConnectAll(g, items) ==
    IF items = <<>> THEN g ELSE ConnectAll(ConnectNode(g, Head(items).id), Tail(items))

\* the call on the index is recorded as the last call: for a batch the number
\* of its vectors, for a delete the id and the nodes that were connected to it
HnswCalled(op, items, i, res, ret) == Called(op, NoName, items, i, res, ret)

\* HnswIndex::batch_insert(vectors); items[k].layer is the layer drawn for
\* the k-th vector.  insert(id, vector, metadata) is batch_insert of one.
HnswBatchInsert(items) ==
    /\ IF items = <<>>
       THEN /\ last' = HnswCalled("hnsw_batch_insert", <<>>, Len(items), "Ok", NoName)
            /\ UNCHANGED graph
       ELSE IF \E k \in 1..Len(items) : Len(items[k].vector) # HnswDimension
       THEN /\ last' = HnswCalled("hnsw_batch_insert", <<>>, Len(items), "InvalidDimension", NoName)
            /\ UNCHANGED graph
       ELSE /\ graph' = ConnectAll([graph EXCEPT !.nodes = PutNodes(@, items)], items)
            /\ last' = HnswCalled("hnsw_batch_insert", <<>>, Len(items), "Ok", NoName)
    /\ UNCHANGED <<now, active, deleted, wal_file, wal_buf, engine, collections, indexes,
                   restarts, acked, durable, tomb, purged, held, tasks, readVars,
                   snapshots, wal_bytes, framed, hits, cursor, mtime>>

\* delete: remove_connection(layer, id) for the layers below `layers` of a node
RECURSIVE RemoveFromLayers(_, _, _)
RemoveFromLayers(node, layers, i) ==
    IF layers = 0 THEN node
    ELSE RemoveFromLayers(RemoveConnection(node, layers - 1, i), layers - 1, i)

\* delete: the id is taken out of every connection set of every node
StripConnectionsOfLayerZero(nodes, i) ==
    [n \in DOMAIN nodes |-> RemoveFromLayers(nodes[n], 1, i)]
StripConnections(nodes, i) ==
    [n \in DOMAIN nodes |-> RemoveFromLayers(nodes[n], Len(nodes[n].connections), i)]

\* delete: max_by_key(layer) over the map, whose order of iteration is not
\* fixed: None for an empty map, else any node of the highest layer
NewEntryPoints(nodes) ==
    IF DOMAIN nodes = {} THEN {<<>>}
    ELSE {<<n>> : n \in {m \in DOMAIN nodes :
                            \A o \in DOMAIN nodes : nodes[o].layer <= nodes[m].layer}}

\* the nodes that hold i in a connection set, in the order of their ids
Inbound(nodes, i) ==
    SelectSeq(<<1, 2, 3>>,
              LAMBDA n : /\ n \in DOMAIN nodes
                         /\ \E l \in 1..Len(nodes[n].connections) :
                               i \in SeqToSet(nodes[n].connections[l]))

\* HnswIndex::delete(id)
HnswDelete(i) ==
    /\ IF i \notin DOMAIN graph.nodes
       THEN /\ last' = HnswCalled("hnsw_delete", <<>>, i, "Ok", <<"false">>)
            /\ UNCHANGED graph
       ELSE /\ \E e \in NewEntryPoints(Drop(graph.nodes, i)) :
                  graph' = [nodes |-> StripConnections(Drop(graph.nodes, i), i),
                            entry_point |-> IF graph.entry_point = <<i>>
                                            THEN e ELSE graph.entry_point]
            /\ last' = HnswCalled("hnsw_delete", Inbound(graph.nodes, i), i, "Ok", <<"true">>)
    /\ UNCHANGED <<now, active, deleted, wal_file, wal_buf, engine, collections, indexes,
                   restarts, acked, durable, tomb, purged, held, tasks, readVars,
                   snapshots, wal_bytes, framed, hits, cursor, mtime>>

\* HnswIndex::search(query, limit, None): the ids and distances returned
HnswSearch(g, q, limit) ==
    IF g.entry_point = <<>> THEN <<>>
    ELSE LET entry_id == g.entry_point[1]
             closest == Descend(g.nodes, q, <<entry_id>>, g.nodes[entry_id].layer, 1)
             found == SearchLayer(g.nodes, q, closest, Larger(HnswEf, limit), 0)
         IN SelectSeq(SubSeq(found, 1, Smaller(limit, Len(found))),
                      LAMBDA c : c.id \in DOMAIN g.nodes)

\* the batches: one vector with its layer, two new vectors, a vector of a
\* wrong dimension, none
HnswItem(i, layer) == [id |-> i, vector |-> HnswVector(i), layer |-> layer]

HnswBatches ==
    {<<HnswItem(i, l)>> : i \in HnswIds, l \in HnswLayers}
       \cup {<<HnswItem(2, l), HnswItem(3, m)>> : l, m \in HnswLayers}
       \cup {<<>>, <<[id |-> 1, vector |-> [k \in 1..(HnswDimension + 1) |-> 0], layer |-> 0]>>}

NextHnsw ==
    \/ \E items \in HnswBatches : HnswBatchInsert(items)
    \/ \E i \in HnswIds : HnswDelete(i)

SpecHnsw == Init /\ [][NextHnsw]_vars

(***************************************************************************)
(* The distance metric of a collection: the index of a collection is made  *)
(* by HnswRsIndex::new(config, config.distance_metric, dimension) when the *)
(* collection is created, restored or rebuilt after a reopen, so the       *)
(* distance of its inner index is a function of the collection's config.   *)
(* Coordinates are not negative and no vector is all zero.                 *)
(***************************************************************************)
\* enum DistanceMetric
DistanceMetrics == {"Cosine", "Euclidean", "DotProduct", "Manhattan"}

\* a CollectionConfig with its distance_metric
MetricConfig(n, d, m) == [name |-> n, dimension |-> d, distance_metric |-> m]

\* HnswRsIndex::new, insert, batch_insert and search: the match on
\* distance_metric has an arm for Cosine (DistCosine), one for Euclidean
\* (DistL2), and `_ =>` takes the cosine index for every other metric
InnerMetric(metric) ==
    IF metric = "Cosine" THEN "Cosine"
    ELSE IF metric = "Euclidean" THEN "Euclidean"
    ELSE "Cosine"

RECURSIVE DotProduct(_, _)
DotProduct(a, b) ==
    IF a = <<>> THEN 0 ELSE Head(a) * Head(b) + DotProduct(Tail(a), Tail(b))

RECURSIVE ManhattanDistance(_, _)
ManhattanDistance(a, b) ==
    IF a = <<>> THEN 0
    ELSE (IF Head(a) < Head(b) THEN Head(b) - Head(a) ELSE Head(a) - Head(b))
         + ManhattanDistance(Tail(a), Tail(b))

\* a is at most as far from q as b is, by the metric. Cosine distance is
\* 1 - q.a / (|q| |a|): it is compared through the squares, which keeps the
\* arithmetic in the integers; a larger dot product is nearer
NoFarther(metric, q, a, b) ==
    IF metric = "Cosine"
    THEN DotProduct(q, a) * DotProduct(q, a) * DotProduct(b, b)
             >= DotProduct(q, b) * DotProduct(q, b) * DotProduct(a, a)
    ELSE IF metric = "Euclidean" THEN Distance(q, a) <= Distance(q, b)
    ELSE IF metric = "DotProduct" THEN DotProduct(q, a) >= DotProduct(q, b)
    ELSE ManhattanDistance(q, a) <= ManhattanDistance(q, b)

\* s holds the k points of the set nearest to q by the metric, nearest first
RankedBy(metric, points, q, k, s) ==
    LET m == IF k < Cardinality(points) THEN k ELSE Cardinality(points)
    IN /\ Len(s) = m
       /\ \A i, j \in 1..m : i < j => s[i] # s[j]
       /\ \A i, j \in 1..m : i < j => NoFarther(metric, q, s[i].data, s[j].data)
       /\ \A p \in points :
             (\A i \in 1..m : s[i] # p) =>
                 \A i \in 1..m : NoFarther(metric, q, s[i].data, p.data)

\* hnsw.search(query, k, ef) on the inner index of the distance `inner`
InnerNeighbours(inner, ix, q, k) ==
    LET m == IF k < Cardinality(ix.points) THEN k ELSE Cardinality(ix.points)
    IN {s \in [1..m -> ix.points] : RankedBy(inner, ix.points, q, k, s)}

RECURSIVE NeighbourIds(_, _)
NeighbourIds(ix, nb) ==
    IF nb = <<>> THEN <<>>
    ELSE IF Head(nb).idx \in DOMAIN ix.idx_to_id
         THEN <<ix.idx_to_id[Head(nb).idx]>> \o NeighbourIds(ix, Tail(nb))
         ELSE NeighbourIds(ix, Tail(nb))

\* VectorStore::query(collection n, vector q, limit, None) on a collection
\* whose index was made for the metric of its config; the response keeps the
\* neighbours, the points the index held and the metric of the collection
MetricQuery(n, q, limit) ==
    /\ engine = "up"
    /\ IF n \notin DOMAIN collections
       THEN hits' = [NoHits EXCEPT !.res = "CollectionNotFound"]
       ELSE IF Len(q) # collections[n].config.dimension
       THEN hits' = [NoHits EXCEPT !.res = "InvalidDimension"]
       ELSE IF n \notin DOMAIN indexes
       THEN hits' = [NoHits EXCEPT !.res = "CollectionNotFound"]
       ELSE \E nb \in InnerNeighbours(InnerMetric(collections[n].config.distance_metric),
                                      indexes[n], q, limit) :
               hits' = [res |-> "Ok", coll |-> n, query |-> q, limit |-> limit,
                        filter |-> <<>>, candidates |-> nb,
                        results |-> NeighbourIds(indexes[n], nb),
                        points |-> indexes[n].points,
                        metric |-> collections[n].config.distance_metric]
    /\ UNCHANGED <<now, active, deleted, wal_file, wal_buf, engine, collections, indexes,
                   last, restarts, acked, durable, tomb, purged, held, tasks, readVars,
                   snapshots, wal_bytes, framed, cursor, graph, mtime>>

\* the vectors of the collections with a metric
MetricVectors ==
    {[id |-> 1, data |-> <<1, 0>>, metadata |-> <<>>],
     [id |-> 2, data |-> <<3, 1>>, metadata |-> <<>>]}

NextMetric ==
    \/ /\ WalLen = 0
       /\ \E m \in DistanceMetrics : CreateCollection(MetricConfig(NameA, 2, m))
    \/ /\ restarts = 0
       /\ WalLen < MaxWal
       /\ \E v \in MetricVectors : Insert(NameA, v)
    \/ Sync
    \/ Restart
    \/ \E q \in {<<3, 0>>, <<3>>} : \E limit \in 1..MaxLimit :
          MetricQuery(NameA, q, limit)

SpecMetric == Init /\ [][NextMetric]_vars

(***************************************************************************)
(* A collection that is soft-deleted and then left alone: no call restores *)
(* it and no call creates its name again.                                  *)
(***************************************************************************)
NextSoftDeleted ==
    \/ /\ DOMAIN deleted = {}
       /\ WalLen < MaxWal
       /\ CreateCollection(Config(NameA, 1))
    \/ /\ DOMAIN deleted = {}
       /\ WalLen < MaxWal
       /\ \E v \in Vectors : Insert(NameA, v)
    \/ SoftDeleteCollection(NameA)
    \/ Tick
    \/ Sync
    \/ Restart

SpecSoftDeleted == Init /\ [][NextSoftDeleted]_vars

(***************************************************************************)
(* Writes of the StorageEngine that fail: a call on a collection that does *)
(* not exist, and a call with a vector of the wrong dimension.  One caller *)
(* makes one call at a time.  The calls that fail and the calls that       *)
(* succeed have different arguments: the collection NameA is written only  *)
(* while it exists, NameAB never exists, and a vector of dimension 2 has   *)
(* an id that no vector of dimension 1 has.                                *)
(***************************************************************************)
WriteOps == {"insert_vector", "batch_insert", "delete_vector"}

WriteVecs(op) ==
    CASE op = "insert_vector" -> {<<Vec(1, 1)>>, <<Vec(2, 2)>>}
      [] op = "batch_insert" -> {<<Vec(3, 1), Vec(4, 1)>>, <<Vec(5, 1), Vec(6, 2)>>}
      [] OTHER -> {<<>>}

\* Err(CollectionNotFound) and Err(InvalidDimension)
WriteErrors == {"CollectionNotFound", "InvalidDimension"}

NextFailedWrite ==
    \/ tasks[1].pc = "idle" /\ CreateCollection(Config(NameA, 1))
    \/ /\ WalLen < MaxWal - 1
       /\ \E op \in WriteOps, n \in {NameA, NameAB} : \E vs \in WriteVecs(op) :
             /\ n = NameA => NameA \in DOMAIN collections
             /\ EngineCall(1, op, Config(n, 1), vs, 1)
    \/ LockRead(1)
    \/ Unlock(1)
    \/ MapLook(1)
    \/ AwaitWal(1)
    \/ AwaitFile(1)
    \/ AwaitStorage(1)
    \/ tasks[1].pc = "idle" /\ Sync
    \/ tasks[1].pc = "idle" /\ Restart

SpecFailedWrite == Init /\ [][NextFailedWrite]_vars

(***************************************************************************)
(* A soft-deleted collection restored under another name, and the reopen   *)
(* that loads the directory the restore made.                              *)
(***************************************************************************)
\* VectorStore::restore_collection(path, Some(name)) ->
\* RecoveryManager::restore_collection: the directory is copied as it is, with
\* its metadata.json, to <data>/name; the facade makes an index only when the
\* storage engine has a config for name
RestoreCollectionAs(d, name) ==
    /\ engine = "up"
    /\ \/ /\ d \notin DOMAIN deleted
          /\ last' = Called("restore_collection", d, <<>>, 0, "Internal", NoName)
          /\ UNCHANGED <<active, indexes>>
       \/ /\ d \in DOMAIN deleted
          /\ name \in DOMAIN active
          /\ last' = Called("restore_collection", d, <<>>, 0, "Internal", NoName)
          /\ UNCHANGED <<active, indexes>>
       \/ /\ d \in DOMAIN deleted
          /\ name \notin DOMAIN active
          /\ active' = Put(active, name, deleted[d])
          /\ indexes' = IF name \in DOMAIN collections
                        THEN Put(indexes, name, NewIndex(collections[name].config.dimension))
                        ELSE indexes
          /\ last' = Called("restore_collection", d, <<>>, 0, "Ok", name)
    /\ UNCHANGED <<now, deleted, wal_file, wal_buf, engine, collections, restarts,
                   acked, durable, tomb, purged, held, tasks, readVars, moreVars>>
    /\ mtime' = DirTimes(mtime, active', deleted', now)

NextRenamed ==
    \/ WalLen < MaxWal /\ CreateCollection(Config(NameA, 1))
    \/ WalLen < MaxWal /\ \E v \in Vectors : Insert(NameA, v)
    \/ SoftDeleteCollection(NameA)
    \/ RestoreCollectionAs(DeletedDirName(NameA, 0), NameAB)
    \/ Sync
    \/ Restart

SpecRenamed == Init /\ [][NextRenamed]_vars

(***************************************************************************)
(* The properties.                                                         *)
(***************************************************************************)
\* the operations the WAL holds, written or buffered
WalOps == SeqToSet(wal_file \o wal_buf)

\* C1: a vector whose insert returned Ok and that a later sync() covered is
\* still there after a kill and a reopen: the reopen yields a store, the store
\* lists the collection, and the rebuilt index returns the vector's id
C1_DurableAfterReopen ==
    (restarts > 0 /\ last.op = "new") =>
        \A p \in durable :
            /\ engine = "up"
            /\ p.coll \in ListCollections
            /\ p.id \in QueryIds(p.coll)

\* C2: after insert or batch_insert returned Ok, every vector of the call is in
\* the collection's index, in <data>/c/vectors.bin and in the WAL, whatever
\* create, soft delete or restore came before
C2_InsertReachesIndexFileAndWal ==
    (last.op \in {"insert", "batch_insert"} /\ last.res = "Ok") =>
        \A k \in 1..Len(last.vecs) :
            /\ last.coll \in DOMAIN indexes
            /\ last.vecs[k].id \in DOMAIN indexes[last.coll].id_to_idx
            /\ last.coll \in DOMAIN active
            /\ last.vecs[k] \in SeqToSet(active[last.coll].vec)
            /\ \/ OpInsert(last.coll, last.vecs[k]) \in WalOps
               \/ OpBatch(last.coll, last.vecs) \in WalOps

\* C3: reopening a data directory never fails because of a WAL entry
C3_ReopenNeverFails == engine # "failed"

\* C4: an id deleted with delete() and not inserted again is returned neither
\* by query nor by scroll, in every later state, after sync() and a restart too
C4_DeletedIdNotReturned ==
    \A p \in tomb : p.id \notin QueryIds(p.coll) /\ p.id \notin ScrollIds(p.coll)

\* C5: a collection that was hard-deleted and not created again is not listed
\* and has no directory under <data>/, in every later state, after restarts too
C5_HardDeletedStaysGone ==
    \A p \in purged : p.name \notin ListCollections /\ p.name \notin DOMAIN active

\* C6: after the soft delete of c returned Ok, list_collections() omits c and
\* list_deleted_collections() has exactly one entry for c
C6_SoftDeletedNotListed ==
    (last.op = "delete_collection" /\ last.res = "Ok") =>
        /\ last.coll \notin ListCollections
        /\ Cardinality(DeletedEntriesFor(last.coll)) = 1

\* C7: after a soft delete and restore_collection(path, None) with no restart
\* and no hard delete in between, the collection is listed and every id its
\* queries returned before the soft delete is returned by its queries again
C7_RestoreBringsVectorsBack ==
    (/\ last.op = "restore_collection" /\ last.res = "Ok" /\ restarts = 0
     /\ \A p \in purged : p.name # held[last.coll].name) =>
        /\ held[last.coll].name \in ListCollections
        /\ held[last.coll].ids \subseteq QueryIds(held[last.coll].name)

\* a step of restore_collection: the call record changed
RestoreStep == last'.op = "restore_collection" /\ last' # last

\* C8: restore_collection(path, None) of the directory a soft delete of n made
\* returns n and puts the files into <data>/n; when <data>/n exists the call
\* fails and changes nothing
C8_RestoreReturnsTheName ==
    [][RestoreStep /\ last'.coll \in DOMAIN held =>
          IF held[last'.coll].name \in DOMAIN active
          THEN last'.res # "Ok" /\ UNCHANGED <<active, deleted, collections, indexes>>
          ELSE last'.res = "Ok" =>
                  /\ last'.ret = held[last'.coll].name
                  /\ DOMAIN active' = DOMAIN active \cup {held[last'.coll].name}
                  /\ active'[held[last'.coll].name] = deleted[last'.coll]]_vars

\* C9: of the create_collection calls for one name, interleaved in any way, at
\* most one returns Ok
C9_CreatedAtMostOnce ==
    \A n \in {NameA} :
        Cardinality({t \in Tasks : tasks[t].config.name = n /\ tasks[t].res = "Ok"}) <= 1

\* every vector a listed collection's storage returns has the collection's dimension
StoredDimensionsMatch ==
    \A n \in DOMAIN collections :
        \A v \in SeqToSet(GetAllVectors(n)) : Len(v.data) = collections[n].config.dimension

\* C10: an insert or batch_insert that returns InvalidDimension changes nothing,
\* so every stored vector has the length of its collection's dimension
C10_DimensionsEnforced ==
    [][/\ (last'.op \in {"insert", "batch_insert"} /\ last'.res = "InvalidDimension")
            => UNCHANGED <<active, deleted, wal_file, wal_buf, collections, indexes>>
       /\ StoredDimensionsMatch']_vars

\* C11: when sync() returns Ok, every entry whose append had returned before the
\* sync was called is written to the WAL file
C11_SyncCoversEarlierAppends ==
    \A t \in Tasks :
        (tasks[t].op = "sync" /\ tasks[t].pc = "idle" /\ tasks[t].res = "Ok") =>
            tasks[t].need \subseteq SeqToSet(EntryIds(wal_file))

\* C12: the entries of the WAL file are in the order in which they were pushed
\* into the buffer
C12_FileOrderIsPushOrder ==
    \A i, j \in 1..Len(wal_file) :
        i < j => EntryIds(wal_file)[i] < EntryIds(wal_file)[j]

\* C13 as stated: read_all returns exactly the operations of the frames that
\* precede the first unparseable frame, in file order
C13_ReadStopsAtFirstBadFrame ==
    read_ops.done => read_ops.ops = valid_prefix.ops

\* C13 amended: read_all returns, in file order, the operations of the frames
\* that precede the first unparseable frame and after them those of the later
\* frames that parse; after a tail that is only truncated it returns exactly
\* the operations of the whole frames
C13_ReadHonoursValidPrefix ==
    read_ops.done =>
        /\ Len(read_ops.ops) >= Len(valid_prefix.ops)
        /\ SubSeq(read_ops.ops, 1, Len(valid_prefix.ops)) = valid_prefix.ops
        /\ valid_prefix.kind # "corrupt" => read_ops.ops = valid_prefix.ops

\* a read of a file with an intact frame, damage after it and a frame that
\* parses after the damage
C13_Witness ==
    /\ read_ops.done
    /\ valid_prefix.kind = "corrupt"
    /\ valid_prefix.ops # <<>>
    /\ Len(read_ops.ops) > Len(valid_prefix.ops)

\* the record of vectors.bin that holds what the index holds for point p of
\* collection n, if there is one
RecordBehind(n, p) ==
    \E k \in 1..Len(GetAllVectors(n)) :
        /\ GetAllVectors(n)[k].id = indexes[n].idx_to_id[p.idx]
        /\ GetAllVectors(n)[k].data = p.data

\* C14: while inserts and batch inserts run concurrently, every id a query can
\* return has its whole record in the collection's vectors file
C14_VisibleOnlyWhenWritten ==
    \A n \in DOMAIN indexes \cap DOMAIN collections :
        /\ \A i \in DOMAIN indexes[n].id_to_idx :
               \E k \in 1..Len(GetAllVectors(n)) : GetAllVectors(n)[k].id = i
        /\ \A p \in indexes[n].points :
               p.idx \in DOMAIN indexes[n].idx_to_id => RecordBehind(n, p)

\* C14 witness: a query returns id 1 while another insert has logged its
\* operation and not yet written its record, and that insert's id is not returned
C14_Witness ==
    /\ 1 \in QueryIds(NameA)
    /\ \E t \in Tasks :
          /\ tasks[t].pc = "run"
          /\ Head(tasks[t].todo) = "file"
          /\ tasks[t].vecs[1].id \notin QueryIds(NameA)

\* C15: a storage-engine call that is suspended at an await holds no guard of
\* the collections map, and it reads the map (the clone of the handle included)
\* only under the guard it took
C15_NoGuardAcrossAwait ==
    \A t \in Tasks :
        tasks[t].pc = "run" =>
            /\ Head(tasks[t].todo) \in AwaitSteps => tasks[t].lock = "none"
            /\ Head(tasks[t].todo) \in MapSteps => tasks[t].lock # "none"

\* C15 witness: one call is suspended at its await on the vectors file with
\* the handle it cloned, while another call holds the write guard of the map
C15_Witness ==
    \E t, u \in Tasks :
        /\ AtStep(t, "file") /\ tasks[t].storage # <<>> /\ tasks[t].lock = "none"
        /\ tasks[u].lock = "write"

\* the ids of the records of collection n's vectors file, in a given state
DiskIds(act, del, cols, n) == {v.id : v \in SeqToSet(FileOf(act, del, cols[n]))}

\* C16: a reopen that directly follows a reopen changes nothing: the store
\* opens or fails as before, lists the same collections, and every collection
\* has the same ids in its vectors file and in its index
C16_SecondReplayChangesNothing ==
    [][(last.op = "new" /\ restarts' = restarts + 1) =>
          /\ engine' = engine
          /\ DOMAIN collections' = DOMAIN collections
          /\ DOMAIN indexes' = DOMAIN indexes
          /\ \A n \in DOMAIN collections :
                /\ DiskIds(active', deleted', collections', n)
                      = DiskIds(active, deleted, collections, n)
                /\ DOMAIN indexes'[n].id_to_idx = DOMAIN indexes[n].id_to_idx
                /\ SearchIds(indexes'[n]) = SearchIds(indexes[n])]_vars

\* C17: get on an id whose insert returned Ok, and that was not deleted since,
\* returns Some vector with that id, of the collection's dimension
C17_GetReturnsInserted ==
    (/\ last.op = "get" /\ last.res = "Ok"
     /\ [coll |-> last.coll, id |-> last.id] \in acked) =>
        /\ last.ret # <<>>
        /\ last.ret[1].id = last.id
        /\ Len(last.ret[1].data) = collections[last.coll].config.dimension

\* a step that is a delete(n, i) on a collection of the store
DeleteStep(n, i) ==
    /\ wal_buf' = WalAppend(wal_buf, OpDeleteVector(n, i))
    /\ last'.op = "delete" /\ last'.coll = n /\ last'.id = i

\* C18: delete returns true exactly when the id was live just before the call
C18_DeleteTellsPresence ==
    [][\A i \in VectorIds :
          DeleteStep(NameA, i) =>
              (last'.ret = <<"true">> <=> [coll |-> NameA, id |-> i] \in acked)]_vars

\* the ids of collection n that are live: inserted or updated with Ok and not
\* deleted since
LiveIds(n) == {p.id : p \in OfColl(acked, n)}

\* C20: the vector count of a collection's statistics is the number of its
\* live ids, whatever inserts (of new and of present ids), batch inserts,
\* updates and deletes came before
C20_CountIsLiveIds ==
    NameA \in DOMAIN collections => Count(NameA) = Cardinality(LiveIds(NameA))

\* C20 witness: an id was inserted while present, another was deleted, and one
\* id is live
C20_Witness ==
    /\ NameA \in DOMAIN indexes
    /\ indexes[NameA].next_idx > Cardinality(VectorIds)
    /\ \E p \in tomb : p.coll = NameA
    /\ Count(NameA) = 1

\* the data of the points a query on collection n can return for id i
QueryData(n, i) ==
    {p.data : p \in {q \in indexes[n].points :
                        /\ q.idx \in DOMAIN indexes[n].idx_to_id
                        /\ indexes[n].idx_to_id[q.idx] = i}}

\* the update's InsertVector entry is in the WAL: update(c, v) has returned Ok
\* and, after a reopen, a sync had covered it
UpdateLogged == OpInsert(NameA, NewVec) \in SeqToSet(wal_file \o wal_buf)

\* C19: once update(c, v) has returned Ok, a query returns for v.id only v's
\* data, never the data the id had before, also after a sync and a reopen
C19_UpdateReplacesData ==
    (engine = "up" /\ UpdateLogged /\ NameA \in DOMAIN indexes) =>
        QueryData(NameA, NewVec.id) = {NewVec.data}

\* a step that is a restore_snapshot call (one that changes nothing at all,
\* not even the record of the last call, is no step)
SnapshotRestoreStep ==
    /\ last'.op = "restore_snapshot"
    /\ <<last, active, indexes>>' # <<last, active, indexes>>

C22_RestoreIntoFreshName ==
    [][(/\ SnapshotRestoreStep
        /\ last'.res = "Ok"
        /\ last'.ret \notin DOMAIN active
        /\ last'.ret \notin DOMAIN collections) =>
          /\ last'.ret \in DOMAIN collections'
          /\ last'.ret \in DOMAIN indexes'
          /\ FileOf(active', deleted', collections'[last'.ret])
                = snapshots[last'.coll].made["vectors.bin"]]_vars

\* what create_snapshot copied into each snapshot directory
MadeSnapshots == [s \in DOMAIN snapshots |-> snapshots[s].made]

\* a step that is a create_snapshot call
CreateSnapshotStep ==
    /\ last'.op = "create_snapshot"
    /\ <<last, MadeSnapshots>>' # <<last, MadeSnapshots>>

\* C28: every create_snapshot that returns Ok adds one entry under a name that
\* was not listed before, and get_snapshot finds it
C28_EverySnapshotIsListed ==
    [][(CreateSnapshotStep /\ last'.res = "Ok") =>
          /\ last'.ret \notin DOMAIN snapshots
          /\ DOMAIN snapshots' = DOMAIN snapshots \cup {last'.ret}
          /\ snapshots'[last'.ret].meta.name = last'.ret]_vars

\* a step that is a cleanup_old_snapshots call
CleanupStep ==
    /\ last'.op = "cleanup_old_snapshots"
    /\ <<last, DOMAIN snapshots>>' # <<last, DOMAIN snapshots>>

\* C29: cleanup_old_snapshots(keep) on n snapshots leaves min(keep, n) of
\* them, none of them older than a deleted one, each as it was, and returns
\* n - min(keep, n)
C29_CleanupKeepsNewest ==
    [][CleanupStep =>
          LET n == Cardinality(DOMAIN snapshots)
              m == IF last'.id < n THEN last'.id ELSE n
              gone == DOMAIN snapshots \ DOMAIN snapshots'
          IN /\ DOMAIN snapshots' \subseteq DOMAIN snapshots
             /\ Cardinality(DOMAIN snapshots') = m
             /\ \A r \in DOMAIN snapshots' : snapshots'[r] = snapshots[r]
             /\ \A r \in DOMAIN snapshots' : \A d \in gone :
                   snapshots[r].meta.created_at >= snapshots[d].meta.created_at
             /\ last'.res = "Ok"
             /\ last'.ret = <<n - m>>]_vars

\* C29 witness: a cleanup that was to keep one snapshot deleted one and kept
\* the one made in the later second
C29_Witness ==
    /\ last.op = "cleanup_old_snapshots"
    /\ last.id = 1
    /\ last.ret = <<1>>
    /\ \E r \in DOMAIN snapshots : snapshots[r].meta.created_at = now /\ now > 0

\* the operations of the frames written with a valid length field, in file order
RECURSIVE ValidFramed(_)
ValidFramed(fr) ==
    IF fr = <<>> THEN <<>>
    ELSE IF Head(fr).valid THEN <<Head(fr).op>> \o ValidFramed(Tail(fr))
    ELSE ValidFramed(Tail(fr))

\* C24: read_all of a file whose frames are valid except for length fields
\* over 100 MiB returns no operation for such a frame and the operations of
\* all the valid frames, those behind it included
C24_OversizedFrameIsSkipped ==
    read_ops.done => read_ops.ops = ValidFramed(framed)

\* C23: read_all returns the operations handed to append, each once and in
\* the order of the calls, whether they were still buffered or already written
C23_ReadAllReturnsAppended ==
    read_ops.done => read_ops.ops = [k \in 1..Len(framed) |-> framed[k].op]

\* the metadata of the record that was last written to the vectors file of
\* collection n for id i: the metadata the vector has
RECURSIVE LastMetadata(_, _)
LastMetadata(recs, i) ==
    IF recs = <<>> THEN <<>>
    ELSE IF recs[Len(recs)].id = i THEN recs[Len(recs)].metadata
    ELSE LastMetadata(SubSeq(recs, 1, Len(recs) - 1), i)

\* C25: a query with a filter returns at most limit results, each a vector
\* whose metadata satisfies the filter, nearest first, all of them among the
\* limit * 3 candidates the index returned
C25_FilteredQuery ==
    (hits.res = "Ok" /\ hits.filter # <<>>) =>
        /\ Len(hits.results) <= hits.limit
        /\ Len(hits.candidates) <= hits.limit * 3
        /\ \A k \in 1..Len(hits.results) :
              /\ EvaluateFilter(hits.filter[1], hits.results[k].metadata)
              /\ EvaluateFilter(hits.filter[1],
                                LastMetadata(GetAllVectors(hits.coll), hits.results[k].id))
              /\ \E c \in 1..Len(hits.candidates) : hits.candidates[c] = hits.results[k]
        /\ \A j, k \in 1..Len(hits.results) :
              j < k => hits.results[j].distance <= hits.results[k].distance

\* C26: a scroll loop ends, and when it has ended it has visited every vector
\* of the (filtered) collection once, in the order of the file
C26_ScrollVisitsAllAndEnds ==
    /\ [](cursor.state = "done" =>
             cursor.seen = FilteredVectors(cursor.filter, GetAllVectors(cursor.coll)))
    /\ (cursor.state = "open" ~> cursor.state = "done")

\* a step of cleanup_old_deleted
CleanupOldDeletedStep ==
    /\ last'.op = "cleanup_old_deleted"
    /\ <<last, DOMAIN deleted>>' # <<last, DOMAIN deleted>>

\* C27: cleanup_old_deleted(hours) removes only collections that were
\* soft-deleted more than hours hours before; the others stay under .deleted
C27_CleanupKeepsRecentlyDeleted ==
    [][CleanupOldDeletedStep =>
          \A d \in DOMAIN deleted :
             d \notin DOMAIN deleted' =>
                now - DeletedAt(d) > last'.id * SecondsPerHour]_vars

\* the operations the write-ahead order is stated for
WalFirstOps == {"create_collection", "delete_collection", "insert_vector", "delete_vector"}

\* the steps of an operation that change the storage of a collection: its
\* directory and files, or its entry in the collections map
StorageSteps == {"new", "put", "remove", "rmdir", "file", "delete"}

\* the step the call of task t takes in this transition, <<>> if it takes none
StepTaken(t) ==
    IF tasks[t].pc = "run" /\ tasks'[t] # tasks[t] THEN <<Head(tasks[t].todo)>> ELSE <<>>

\* C30: create_collection, delete_collection, insert_vector and delete_vector
\* have appended their WAL entry when they first change the storage of the
\* collection; batch_insert has appended to the vectors file when it appends
\* its WAL entry
C30_WalBeforeStorage ==
    [][\A t \in Tasks :
          StepTaken(t) # <<>> =>
             /\ (tasks[t].op \in WalFirstOps /\ StepTaken(t)[1] \in StorageSteps)
                   => "wal" \notin SeqToSet(tasks[t].todo)
             /\ (tasks[t].op = "batch_insert" /\ StepTaken(t)[1] = "wal")
                   => "file" \notin SeqToSet(tasks[t].todo)]_vars

\* C31: a query after a restart returns no id twice, and every id at the
\* distance of the record that was written last for it
C31_RebuiltIndexHoldsEachIdOnce ==
    (restarts > 0 /\ hits.res = "Ok") =>
        /\ \A i, j \in 1..Len(hits.results) :
              i # j => hits.results[i].id # hits.results[j].id
        /\ \A i \in 1..Len(hits.results) :
              hits.results[i].distance =
                 Distance(hits.query,
                          LatestRecord(GetAllVectors(hits.coll), hits.results[i].id).data)

\* the highest layer of a node of the index
TopLayer(nodes) ==
    CHOOSE l \in {nodes[n].layer : n \in DOMAIN nodes} :
        \A n \in DOMAIN nodes : nodes[n].layer <= l

\* C32: the entry point is None exactly when the index has no node, and else
\* it is a node of the index whose layer is the highest of all nodes
C32_EntryPointIsTopNode ==
    /\ graph.entry_point = <<>> <=> DOMAIN graph.nodes = {}
    /\ graph.entry_point # <<>> =>
          /\ graph.entry_point[1] \in DOMAIN graph.nodes
          /\ graph.nodes[graph.entry_point[1]].layer = TopLayer(graph.nodes)

\* every id in a connection set is a node of the index
NoDanglingConnection ==
    \A n \in DOMAIN graph.nodes : \A l \in 1..Len(graph.nodes[n].connections) :
        SeqToSet(graph.nodes[n].connections[l]) \subseteq DOMAIN graph.nodes

\* no search returns an id that is not a node of the index
SearchReturnsNodes ==
    \A i \in HnswIds : \A limit \in 1..3 :
        SeqToSet(CandidateIds(HnswSearch(graph, HnswVector(i), limit)))
            \subseteq DOMAIN graph.nodes

\* a step of HnswIndex::delete
HnswDeleteStep ==
    /\ last'.op = "hnsw_delete"
    /\ <<last, graph>>' # <<last, graph>>

\* C33: no connection set names an id that is not in the index, no search
\* returns such an id, and delete(id) returns false exactly when id was absent
\* and leaves the index without id
C33_DeleteLeavesNoConnection ==
    /\ [](NoDanglingConnection /\ SearchReturnsNodes)
    /\ [][HnswDeleteStep =>
             /\ last'.ret = <<"false">> <=> last'.id \notin DOMAIN graph.nodes
             /\ last'.id \notin DOMAIN graph'.nodes]_vars

\* C33: a delete returned true for a node that other nodes were connected to,
\* and nodes are left
C33_Witness ==
    /\ last.op = "hnsw_delete"
    /\ last.ret = <<"true">>
    /\ last.vecs # <<>>
    /\ DOMAIN graph.nodes # {}

\* C34: the results of a query are the nearest points of the collection by the
\* metric the collection was created with, nearest first
C34_ResultsRankedByMetric ==
    hits.res = "Ok" =>
        RankedBy(hits.metric, hits.points, hits.query, hits.limit, hits.candidates)

\* C35: while the engine is up, the listed collections are exactly the
\* collection directories under the data directory (each holds its
\* metadata.json and its vectors.bin)
C35_ListedCollectionsAreDirectories ==
    engine = "up" => ListCollections = DOMAIN active

\* C36: while the engine is up, the listed collections are exactly the
\* collections that have an index
C36_ListedCollectionsAreIndexed ==
    engine = "up" => ListCollections = DOMAIN indexes

\* C37: a soft-deleted collection that was not restored is not listed and has
\* no directory under the data directory, also after a reopen
C37_SoftDeletedStaysDeleted ==
    (engine = "up" /\ DeletedEntriesFor(NameA) # {}) =>
        /\ NameA \notin ListCollections
        /\ NameA \notin DOMAIN active

\* the collection NameA was hard-deleted and created again, and every logged
\* operation has been synced
Recreated ==
    /\ NameA \in DOMAIN collections
    /\ OpDeleteCollection(NameA) \in SeqToSet(wal_file)
    /\ wal_buf = <<>>

\* C38: a reopen leaves a collection that was hard-deleted and created again
\* with exactly the ids inserted, and not deleted, since it was created again
C38_RecreatedCollectionStartsFresh ==
    [][(restarts' = restarts + 1 /\ engine' = "up" /\ Recreated) =>
          /\ NameA \in DOMAIN collections'
          /\ QueryIds(NameA)' = LiveIds(NameA)
          /\ ScrollIds(NameA)' = LiveIds(NameA)]_vars

\* C39: a write of the StorageEngine that has returned an error has left no
\* entry in the WAL and no record in the vectors file of its collection
C39_FailedWriteLeavesNothing ==
    \A t \in Tasks :
        (tasks[t].pc = "idle" /\ tasks[t].op \in WriteOps /\ tasks[t].res \in WriteErrors) =>
            /\ EngineOp(t) \notin SeqToSet(wal_file \o wal_buf)
            /\ tasks[t].config.name \in DOMAIN active =>
                  \A k \in 1..Len(tasks[t].vecs) :
                      tasks[t].vecs[k] \notin SeqToSet(active[tasks[t].config.name].vec)

\* C40: a reopen registers every collection it loads under the name of the
\* directory that holds its files, and a directory that a restore made under
\* a new name is listed under that name
C40_LoadedUnderDirectoryName ==
    [][(restarts' = restarts + 1 /\ engine' = "up") =>
          /\ \A n \in DOMAIN collections' : collections'[n].loc = ActiveLoc(n)
          /\ NameAB \in DOMAIN active => NameAB \in DOMAIN collections']_vars

====
